---- MODULE Spec2Model ----
(***************************************************************************)
(* Workspace lifecycle orchestration of ralph-kanban:                      *)
(*   crates/services/src/services/workspace_manager.rs  (WorkspaceManager) *)
(*   crates/server/src/routes/workspaces.rs             (close_workspace)  *)
(*                                                                         *)
(* One workspace directory is modelled together with the canonical         *)
(* repositories of its project and the rows of the database that the close *)
(* request reads and writes.  The single-worktree primitives               *)
(* (WorktreeManager, GitService) live in other crates; they are modelled   *)
(* by their contract and every outcome the contract allows is explored.    *)
(***************************************************************************)
EXTENDS Integers, Sequences, FiniteSets, TLC

\* ---------------------------------------------------------------- bounds
\* Number of repositories registered with the project.
NumRepos == 3

\* Number of calls of create_workspace, or of ensure_workspace_exists and
\* migrate_legacy_worktree, made one after the other with the same arguments
\* (the first call and its retries).
MaxCalls == 2

\* Entries of a base directory of workspaces.
NumSubdirs == 2

\* ------------------------------------------------------------ vocabulary
Repos == 1..NumRepos

\* Repo.name: unique per repository, used as the worktree sub-directory name.
RepoNames == <<"alpha", "beta", "gamma", "delta", "epsilon", "zeta">>

RepoName(r) == RepoNames[r]

\* Repo.path: the canonical clone.
RepoPath(r) == <<"repos", RepoNames[r]>>

\* The workspace directory handed to every call.
WorkspaceDir == <<"worktrees", "ws1">>

\* An entry of the workspace directory that belongs to no repository.
Foreign == "notes.txt"

EntryNames == {RepoName(r) : r \in Repos} \cup {Foreign}

\* What a directory entry can be.
EntryKinds == {"absent", "worktree", "residue", "file"}

\* Errors the create-worktree primitive can report.
CreateErrors == {"BranchExists", "WorktreeAddFailed", "BaseBranchNotFound"}

\* The error a failing cleanup_worktree reports.
CleanupError == "CleanupFailed"

None == "none"

\* Option::None of a path or of a commit id.
NoRef == <<>>

\* Path::join
JoinPath(dir, name) == Append(dir, name)

RangeOf(s) == {s[i] : i \in 1..Len(s)}

\* All lists of distinct repositories (a workspace's repository set has
\* unique names), the empty list included.
InputLists ==
    {s \in UNION {[1..n -> Repos] : n \in 0..NumRepos} :
        Cardinality(RangeOf(s)) = Len(s)}

VARIABLES
    \* --- filesystem and repositories
    wsDir,        \* the workspace directory exists
    entry,        \* entry name -> kind of the entry inside the workspace directory
    branch,       \* repository -> the workspace branch exists in its canonical clone
    \* --- the running create_workspace call
    pc,           \* position of the call
    args,         \* `repos` argument: list of repositories, in caller order
    idx,          \* position of the `for input in repos` loop
    created,      \* created_worktrees
    ridx,         \* position of the loop of cleanup_created_worktrees
    cause,        \* the error `e` of the failing create-worktree call
    result,       \* what the call returned
    \* --- observation
    calls,        \* primitive-service calls of the current call, in order
    pre,          \* filesystem and repositories when the current call started
    callNo,       \* calls started so far
    \* --- canonical repositories and database
    commits,      \* repository -> merge commits on its target branch, oldest first
    db,           \* the workspace row: exists, container_ref, archived
    taskStatus,   \* status of the workspace's task
    merges,       \* DirectMerge rows
    running,      \* a non-dev-server execution process of the workspace is running
    \* --- the running close_workspace request
    rpc,          \* position of the request
    strategy,     \* request.strategy
    ws,           \* the row read by Workspace::find_by_id
    midx,         \* position of the loop of close_workspace_merge
    results,      \* `results` of close_workspace_merge
    mergeRet,     \* what close_workspace_merge returned
    recIdx,       \* position of the loop writing DirectMerge rows
    didx,         \* position of the branch-deletion loop of close_workspace_discard
    response,     \* the response of the request
    \* --- the legacy layout on disk
    rootGit,      \* the .git entry directly in the workspace directory
    tmpDir,       \* the sibling directory `<name>-migrating`
    \* --- the running ensure_workspace_exists / migrate_legacy_worktree call
    epc,          \* position of the call
    caller,       \* which of the two functions was called
    eidx,         \* position of the `for repo in repos` loop
    mret,         \* what migrate_legacy_worktree returned
    eret,         \* what ensure_workspace_exists returned
    \* --- the base directories and the orphan sweep
    toggle,       \* DISABLE_WORKTREE_CLEANUP is set
    distinct,     \* the configured base directory is not the default one
    baseDir,      \* base directory -> missing or present
    sub,          \* base directory -> entry -> what the entry is
    registry,     \* the paths recorded as container_ref of a workspace
    spc,          \* position of cleanup_orphan_workspaces
    sbase,        \* the base directory being swept
    sidx,         \* position of the loop over its entries
    \* --- close_workspace requests
    closes,       \* close_workspace requests answered with success so far
    parked        \* the other close_workspace request, while this one runs

\* State of one create_workspace call.
createVars == <<pc, idx, created, ridx, cause, result>>

\* State of one close_workspace request.
closeVars == <<rpc, strategy, ws, midx, results, mergeRet, recIdx, didx, response>>

\* Database rows.
dbVars == <<db, taskStatus, merges, running>>

\* Filesystem and workspace branches.
fsVars == <<wsDir, entry, branch>>

ensureVars == <<rootGit, tmpDir, epc, caller, eidx, mret, eret>>

sweepVars == <<toggle, distinct, baseDir, sub, registry, spc, sbase, sidx>>

reqVars == <<closes, parked>>

vars == <<wsDir, entry, branch, args, calls, pre, callNo, commits,
          pc, idx, created, ridx, cause, result,
          db, taskStatus, merges, running,
          rpc, strategy, ws, midx, results, mergeRet, recIdx, didx, response,
          rootGit, tmpDir, epc, caller, eidx, mret, eret,
          toggle, distinct, baseDir, sub, registry, spc, sbase, sidx,
          closes, parked>>

Snapshot ==
    [wsDir |-> wsDir, entry |-> entry, branch |-> branch, commits |-> commits,
     db |-> db, taskStatus |-> taskStatus, merges |-> merges, closes |-> closes]

\* The workspace row of an open workspace and of a closed one.
OpenRow == [exists |-> TRUE, container_ref |-> WorkspaceDir, archived |-> FALSE]
ClosedRow == [exists |-> TRUE, container_ref |-> NoRef, archived |-> TRUE]
NoRow == [exists |-> FALSE, container_ref |-> NoRef, archived |-> FALSE]

NoResponse == [status |-> 0]

\* A close_workspace request that has not arrived yet.
IdleRequest ==
    [rpc |-> "idle", strategy |-> None, ws |-> NoRow, midx |-> 1, results |-> <<>>,
     mergeRet |-> [kind |-> None], recIdx |-> 1, didx |-> 1,
     response |-> NoResponse, calls |-> <<>>, pre |-> NoResponse]

\* The state of everything but the disk, the repositories and the arguments
\* before any call.
InitIdle ==
    /\ pc = "idle"
    /\ idx = 1
    /\ created = <<>>
    /\ ridx = 1
    /\ cause = None
    /\ result = [kind |-> None]
    /\ calls = <<>>
    /\ callNo = 0
    /\ commits = [r \in Repos |-> <<>>]
    /\ taskStatus = "inprogress"
    /\ merges = <<>>
    /\ rpc = "idle"
    /\ strategy = None
    /\ ws = NoRow
    /\ midx = 1
    /\ results = <<>>
    /\ mergeRet = [kind |-> None]
    /\ recIdx = 1
    /\ didx = 1
    /\ response = NoResponse
    /\ epc = "idle"
    /\ caller = None
    /\ eidx = 1
    /\ mret = [kind |-> None]
    /\ eret = [kind |-> None]
    /\ closes = 0
    /\ parked = IdleRequest

NoResult == [kind |-> None]

\* The workspace directory has the current layout: no .git entry at its root
\* and no `-migrating` sibling.
NoLegacy == rootGit = "absent" /\ tmpDir = "absent"

\* get_default_worktree_base_dir() and get_workspace_base_dir()
BaseDirs == {"default", "custom"}

\* The entries of a base directory.
SubNames == 1..NumSubdirs

\* `entry.path()` of entry d of base directory b.
SubPath(b, d) == <<b, d>>

\* An entry of a base directory: what it is, and what its one child is.
SubKinds == {"absent", "file", "dir"}
ChildKinds == {"none", "file", "dir"}
NoSub == [kind |-> "absent", child |-> "none"]

\* No sweep is running and the base directories play no part.
NoSweep ==
    /\ toggle = FALSE
    /\ distinct = FALSE
    /\ baseDir = [b \in BaseDirs |-> "missing"]
    /\ sub = [b \in BaseDirs |-> [d \in SubNames |-> NoSub]]
    /\ registry = {}
    /\ spc = "idle"
    /\ sbase = "default"
    /\ sidx = 1

\* The directory holds no entry (what remove_dir requires).
DirEmpty(e) == \A n \in EntryNames : e[n] = "absent"

Init ==
    /\ wsDir \in BOOLEAN
    /\ NoLegacy
    /\ NoSweep
    /\ entry \in {e \in [EntryNames -> EntryKinds] :
                    /\ \A r \in Repos : e[RepoName(r)] = "absent"
                    /\ e[Foreign] \in {"absent", "file"}
                    /\ (~wsDir => e[Foreign] = "absent")}
    /\ branch \in [Repos -> BOOLEAN]
    /\ args \in InputLists
    /\ db = NoRow
    /\ running = FALSE
    /\ InitIdle
    /\ pre = Snapshot

\* ------------------------------------------------ primitive service
\* WorktreeManager::create_worktree_with_start_ref(repo, branch_name, path,
\* target_branch, create_branch = true, start_from_ref): it creates the new
\* branch and then the worktree, so it can only succeed in a repository that
\* has no branch of that name yet.
CreateWorktreeCanSucceed(b, r) == ~b[r]

\* The errors create-worktree can report for repository r.
CreateWorktreeErrorsFor(b, r) ==
    IF b[r] THEN {"BranchExists"} ELSE CreateErrors \ {"BranchExists"}

\* Directory after a successful create-worktree at <workspace_dir>/<name>;
\* the primitive makes the path with its parents, so that <workspace_dir>
\* exists afterwards (as it does after a failure that leaves something).
AfterCreateWorktree(e, name) == [e EXCEPT ![name] = "worktree"]

\* Directory after a failed create-worktree: it may leave a partial directory
\* behind (left) when nothing was there.
AfterFailedCreateWorktree(e, name, left) ==
    IF left /\ e[name] = "absent" THEN [e EXCEPT ![name] = "residue"] ELSE e

\* Directory after a successful WorktreeManager::cleanup_worktree of the
\* worktree at <workspace_dir>/<name>.  The branch is kept: deleting it is a
\* separate primitive (GitService::delete_branch).
AfterCleanupWorktree(e, name) == [e EXCEPT ![name] = "absent"]

\* A record of one call to the primitive service.
Call(op, r, path, err) ==
    [op |-> op, repo |-> r, path |-> path, ok |-> (err = None), err |-> err]

\* --------------------------------------------------- create_workspace
\* Mutant: the emptiness check is missing.
NoRepos_Never(repos) == FALSE

\* `repos.is_empty()`
NoRepos(repos) == repos = <<>>

\* `workspace_dir.join(&input.repo.name)`
WorktreePath(r) == JoinPath(WorkspaceDir, RepoName(r))

\* Mutant: the worktree path is the workspace directory itself (the legacy
\* layout), not the nested path.
RepoWorktreeOf_Flat(r) ==
    [repo_id |-> r, repo_name |-> RepoName(r),
     source_repo_path |-> RepoPath(r), worktree_path |-> WorkspaceDir]

\* The RepoWorktree pushed after a successful create-worktree.
RepoWorktreeOf(r) ==
    [repo_id |-> r, repo_name |-> RepoName(r),
     source_repo_path |-> RepoPath(r), worktree_path |-> WorktreePath(r)]

\* `created_worktrees.push(..)`
PushWorktree(list, wt) == Append(list, wt)

\* The WorktreeContainer returned on success.
ContainerOf(list) == [workspace_dir |-> WorkspaceDir, worktrees |-> list]

\* Mutant: the message carries the cause but not the repository.
PartialCreation_NoName(name, e) == [kind |-> "PartialCreation", repo |-> None, cause |-> e]

\* WorkspaceError::PartialCreation(format!("Failed to create worktree for
\* repo '{}': {}", input.repo.name, e)): the message carries the name and
\* the error of the failing create-worktree call.
PartialCreation(name, e) == [kind |-> "PartialCreation", repo |-> name, cause |-> e]

\* Mutant: the rollback cleans up the worktree of every repository found in
\* the workspace directory.
RollbackList_EveryRepo(list) == [r \in Repos |-> RepoWorktreeOf(r)]

\* Mutant: the rollback skips the first worktree created.
RollbackList_SkipFirst(list) == SubSeq(list, 2, Len(list))

\* The worktrees handed to cleanup_created_worktrees.
RollbackList(list) == list

\* Mutant: the first failing cleanup ends the rollback loop.
AfterCleanupFailure_Abort(i, n) == n + 1

\* cleanup_created_worktrees after a cleanup that failed: the error is
\* logged and the loop goes on with the next worktree.
AfterCleanupFailure(i, n) == i + 1

\* Mutant: remove_dir_all, which removes the directory with its content.
RemoveDir_All(exists, e) == FALSE

\* tokio::fs::remove_dir(workspace_dir): removes the directory when it
\* exists and is empty and fails otherwise; the failure is only logged.
RemoveDir(exists, e) == IF exists /\ DirEmpty(e) THEN FALSE ELSE exists

\* A call can start when none is running and the caller has calls left.
CanStart == pc \in {"idle", "done"} /\ callNo < MaxCalls

StartCall ==
    /\ callNo' = callNo + 1
    /\ calls' = <<>>
    /\ pre' = Snapshot
    /\ idx' = 1
    /\ ridx' = 1
    /\ created' = <<>>
    /\ cause' = None

\* Empty input: Err(NoRepositories) before anything else.
CreateNoRepositories ==
    /\ CanStart
    /\ NoRepos(args)
    /\ StartCall
    /\ result' = [kind |-> "NoRepositories"]
    /\ pc' = "done"
    /\ UNCHANGED <<fsVars, args>>
    /\ UNCHANGED <<commits, dbVars, closeVars>>
    /\ UNCHANGED <<ensureVars, sweepVars, reqVars>>

\* create_dir_all(workspace_dir) succeeds.
CreateDirAll ==
    /\ CanStart
    /\ ~NoRepos(args)
    /\ StartCall
    /\ wsDir' = TRUE
    /\ result' = NoResult
    /\ pc' = "create"
    /\ UNCHANGED <<entry, branch, args>>
    /\ UNCHANGED <<commits, dbVars, closeVars>>
    /\ UNCHANGED <<ensureVars, sweepVars, reqVars>>

\* create_dir_all(workspace_dir) fails (it had to create the directory and
\* could not): the `?` returns Err(Io).
CreateDirAllErr ==
    /\ CanStart
    /\ ~NoRepos(args)
    /\ ~wsDir
    /\ StartCall
    /\ result' = [kind |-> "Io"]
    /\ pc' = "done"
    /\ UNCHANGED <<fsVars, args>>
    /\ UNCHANGED <<commits, dbVars, closeVars>>
    /\ UNCHANGED <<ensureVars, sweepVars, reqVars>>

\* One iteration of the loop whose create-worktree call succeeds.
CreateWorktreeOk ==
    /\ pc = "create"
    /\ idx <= Len(args)
    /\ LET r == args[idx] IN
        /\ CreateWorktreeCanSucceed(branch, r)
        /\ entry' = AfterCreateWorktree(entry, RepoName(r))
        /\ wsDir' = TRUE
        /\ branch' = [branch EXCEPT ![r] = TRUE]
        /\ created' = PushWorktree(created, RepoWorktreeOf(r))
        /\ calls' = Append(calls, Call("create_worktree", RepoPath(r), WorktreePath(r), None))
    /\ idx' = idx + 1
    /\ UNCHANGED <<pc, args, ridx, cause, result, pre, callNo>>
    /\ UNCHANGED <<commits, dbVars, closeVars>>
    /\ UNCHANGED <<ensureVars, sweepVars, reqVars>>

\* One iteration of the loop whose create-worktree call fails: rollback starts.
CreateWorktreeErr ==
    /\ pc = "create"
    /\ idx <= Len(args)
    /\ LET r == args[idx] IN
        \E e \in CreateWorktreeErrorsFor(branch, r), left \in BOOLEAN :
            /\ entry' = AfterFailedCreateWorktree(entry, RepoName(r), left)
            /\ wsDir' = (wsDir \/ left)
            /\ cause' = e
            /\ calls' = Append(calls, Call("create_worktree", RepoPath(r), WorktreePath(r), e))
    /\ ridx' = 1
    /\ pc' = "rollback"
    /\ UNCHANGED <<branch, args, idx, created, result, pre, callNo>>
    /\ UNCHANGED <<commits, dbVars, closeVars>>
    /\ UNCHANGED <<ensureVars, sweepVars, reqVars>>

\* The loop is over: Ok(WorktreeContainer).
CreateReturnOk ==
    /\ pc = "create"
    /\ idx > Len(args)
    /\ result' = [kind |-> "Ok", container |-> ContainerOf(created)]
    /\ pc' = "done"
    /\ UNCHANGED <<fsVars, args, idx, created, ridx, cause, calls, pre, callNo>>
    /\ UNCHANGED <<commits, dbVars, closeVars>>
    /\ UNCHANGED <<ensureVars, sweepVars, reqVars>>

\* cleanup_created_worktrees: one cleanup_worktree that succeeds.
RollbackCleanupOk ==
    /\ pc = "rollback"
    /\ ridx <= Len(RollbackList(created))
    /\ LET wt == RollbackList(created)[ridx] IN
        /\ entry' = AfterCleanupWorktree(entry, wt.repo_name)
        /\ calls' = Append(calls, Call("cleanup_worktree", wt.source_repo_path, wt.worktree_path, None))
    /\ ridx' = ridx + 1
    /\ UNCHANGED <<wsDir, branch, pc, args, idx, created, cause, result, pre, callNo>>
    /\ UNCHANGED <<commits, dbVars, closeVars>>
    /\ UNCHANGED <<ensureVars, sweepVars, reqVars>>

\* cleanup_created_worktrees: one cleanup_worktree that fails; logged only.
RollbackCleanupErr ==
    /\ pc = "rollback"
    /\ ridx <= Len(RollbackList(created))
    /\ LET wt == RollbackList(created)[ridx] IN
        calls' = Append(calls, Call("cleanup_worktree", wt.source_repo_path, wt.worktree_path, CleanupError))
    /\ ridx' = AfterCleanupFailure(ridx, Len(RollbackList(created)))
    /\ UNCHANGED <<fsVars, pc, args, idx, created, cause, result, pre, callNo>>
    /\ UNCHANGED <<commits, dbVars, closeVars>>
    /\ UNCHANGED <<ensureVars, sweepVars, reqVars>>

\* After the rollback: remove_dir(workspace_dir), then Err(PartialCreation).
RollbackRemoveDir ==
    /\ pc = "rollback"
    /\ ridx > Len(RollbackList(created))
    /\ wsDir' = RemoveDir(wsDir, entry)
    /\ result' = PartialCreation(RepoName(args[idx]), cause)
    /\ pc' = "done"
    /\ UNCHANGED <<entry, branch, args, idx, created, ridx, cause, calls, pre, callNo>>
    /\ UNCHANGED <<commits, dbVars, closeVars>>
    /\ UNCHANGED <<ensureVars, sweepVars, reqVars>>

NextCreate ==
    \/ CreateNoRepositories
    \/ CreateDirAll
    \/ CreateDirAllErr
    \/ CreateWorktreeOk
    \/ CreateWorktreeErr
    \/ CreateReturnOk
    \/ RollbackCleanupOk
    \/ RollbackCleanupErr
    \/ RollbackRemoveDir

SpecCreate == Init /\ [][NextCreate]_vars

\* ------------------------------------------- close_workspace_merge
\* Descriptions a merge conflict can carry.
ConflictMessages == {"conflict in src/lib.rs", "conflict in README.md"}

\* Errors of GitService::merge_into_branch in a repository that has the
\* workspace branch: a conflict with its description, or another failure.
GitMergeErrors ==
    {[kind |-> "MergeConflicts", message |-> m] : m \in ConflictMessages}
        \cup {[kind |-> "WorktreeDirty", message |-> "uncommitted changes"]}

\* The error of merge_into_branch when the workspace branch does not exist.
GitBranchNotFound == [kind |-> "BranchNotFound", message |-> "branch not found"]

\* The errors merge_into_branch can report for repository r.
MergeErrorsFor(b, r) == IF b[r] THEN GitMergeErrors ELSE {GitBranchNotFound}

\* The id of the n-th merge commit made on the target branch of repository r.
MergeSha(r, n) == <<"sha", RepoName(r), n>>

\* WorkspaceRepo.target_branch of repository r.
TargetBranch(r) == <<"main", RepoName(r)>>

\* A record of one call to merge_into_branch.
MergeCall(r, err, message, sha) ==
    [op |-> "merge_into_branch", repo |-> RepoPath(r), path |-> TargetBranch(r),
     ok |-> (err = None), err |-> err, message |-> message, sha |-> sha]

\* WorkspaceError::MergeConflicts { repo_name, message }
MergeConflictsErr(name, message) ==
    [kind |-> "MergeConflicts", repo_name |-> name, message |-> message]

\* WorkspaceError::Git(format!("Merge failed in repo '{}': {}", repo.name, e))
GitErr(name, e) == [kind |-> "Git", repo_name |-> name, message |-> e.kind]

\* Mutant: every merge failure is reported as a generic Git error.
MapMergeError_AlwaysGit(name, e) == GitErr(name, e)

\* The map_err closure applied to the error of merge_into_branch.
MapMergeError(name, e) ==
    IF e.kind = "MergeConflicts"
    THEN MergeConflictsErr(name, e.message)
    ELSE GitErr(name, e)

\* Mutant: a task that cannot be joined is reported as a conflict.
JoinErr_Conflict ==
    [kind |-> "MergeConflicts", repo_name |-> None, message |-> "Task join error"]

\* WorkspaceError::Git(format!("Task join error: {e}"))
JoinErr == [kind |-> "Git", repo_name |-> None, message |-> "Task join error"]

\* Mutant: every result carries the default branch as its target branch.
RepoMergeResultOf_DefaultTarget(r, sha) ==
    [repo_id |-> r, repo_name |-> RepoName(r), merge_commit_sha |-> sha,
     target_branch |-> <<"main">>]

\* The RepoMergeResult pushed after a successful merge.
RepoMergeResultOf(r, sha) ==
    [repo_id |-> r, repo_name |-> RepoName(r), merge_commit_sha |-> sha,
     target_branch |-> TargetBranch(r)]

\* The response the route builds from an error of close_workspace_merge:
\* 409 for MergeConflicts, 400 for anything else.
MergeErrorResponse(e) ==
    IF e.kind = "MergeConflicts"
    THEN [status |-> 409, repo_name |-> e.repo_name, message |-> e.message]
    ELSE [status |-> 400, repo_name |-> e.repo_name, message |-> e.message]

\* Mutant: the worktree of a repository is removed as soon as it is merged.
MergeOk_RemovesWorktree ==
    /\ rpc = "merge"
    /\ midx <= Len(args)
    /\ LET r == args[midx]
           sha == MergeSha(r, Len(commits[r]) + 1)
       IN  /\ branch[r]
           /\ commits' = [commits EXCEPT ![r] = Append(@, sha)]
           /\ results' = Append(results, RepoMergeResultOf(r, sha))
           /\ calls' = Append(calls, MergeCall(r, None, None, sha))
           /\ entry' = AfterCleanupWorktree(entry, RepoName(r))
    /\ midx' = midx + 1
    /\ UNCHANGED <<wsDir, branch, args, pre, callNo, createVars, dbVars>>
    /\ UNCHANGED <<rpc, strategy, ws, mergeRet, recIdx, didx, response>>
    /\ UNCHANGED <<ensureVars, sweepVars, reqVars>>

\* One iteration of the loop: merge_into_branch returns the merge commit.
MergeOk ==
    /\ rpc = "merge"
    /\ midx <= Len(args)
    /\ LET r == args[midx]
           sha == MergeSha(r, Len(commits[r]) + 1)
       IN  /\ branch[r]
           /\ commits' = [commits EXCEPT ![r] = Append(@, sha)]
           /\ results' = Append(results, RepoMergeResultOf(r, sha))
           /\ calls' = Append(calls, MergeCall(r, None, None, sha))
    /\ midx' = midx + 1
    /\ UNCHANGED <<fsVars, args, pre, callNo, createVars, dbVars>>
    /\ UNCHANGED <<rpc, strategy, ws, mergeRet, recIdx, didx, response>>
    /\ UNCHANGED <<ensureVars, sweepVars, reqVars>>

\* One iteration of the loop: merge_into_branch fails; the `?` returns the
\* mapped error and the route answers with it.
MergeErr ==
    /\ rpc = "merge"
    /\ midx <= Len(args)
    /\ LET r == args[midx] IN
        \E e \in MergeErrorsFor(branch, r) :
            /\ mergeRet' = MapMergeError(RepoName(r), e)
            /\ calls' = Append(calls, MergeCall(r, e.kind, e.message, NoRef))
    /\ response' = MergeErrorResponse(mergeRet')
    /\ rpc' = "done"
    /\ UNCHANGED <<fsVars, args, pre, callNo, commits, createVars, dbVars>>
    /\ UNCHANGED <<strategy, ws, midx, results, recIdx, didx>>
    /\ UNCHANGED <<ensureVars, sweepVars, reqVars>>

\* One iteration of the loop: the blocking task cannot be joined (it
\* panicked); the merge commit may or may not have been made.
MergeJoinErr ==
    /\ rpc = "merge"
    /\ midx <= Len(args)
    /\ LET r == args[midx]
           sha == MergeSha(r, Len(commits[r]) + 1)
       IN  /\ \E committed \in BOOLEAN :
                commits' = IF committed /\ branch[r]
                           THEN [commits EXCEPT ![r] = Append(@, sha)]
                           ELSE commits
           /\ calls' = Append(calls, MergeCall(r, "JoinError", "panic", NoRef))
    /\ mergeRet' = JoinErr
    /\ response' = MergeErrorResponse(mergeRet')
    /\ rpc' = "done"
    /\ UNCHANGED <<fsVars, args, pre, callNo, createVars, dbVars>>
    /\ UNCHANGED <<strategy, ws, midx, results, recIdx, didx>>
    /\ UNCHANGED <<ensureVars, sweepVars, reqVars>>

\* The loop is over: Ok(results); the route goes on to write the records.
MergeReturnOk ==
    /\ rpc = "merge"
    /\ midx > Len(args)
    /\ mergeRet' = [kind |-> "Ok", results |-> results]
    /\ recIdx' = 1
    /\ rpc' = "record"
    /\ UNCHANGED <<fsVars, args, calls, pre, callNo, commits, createVars, dbVars>>
    /\ UNCHANGED <<strategy, ws, midx, results, didx, response>>
    /\ UNCHANGED <<ensureVars, sweepVars, reqVars>>

\* ----------------------------------- close_workspace_discard, cleanup_workspace
\* Directory after WorktreeManager::batch_cleanup_worktrees over the worktrees
\* of `repos`, of which those of `failed` could not be removed.
AfterBatchCleanup(e, repos, failed) ==
    [n \in EntryNames |->
        IF \E i \in 1..Len(repos) : RepoName(repos[i]) = n /\ repos[i] \notin failed
        THEN "absent" ELSE e[n]]

\* The items of a batch cleanup that can fail: the removal of a worktree
\* fails only where there is something to remove.
CleanupCanFail(e, repos) == {r \in RangeOf(repos) : e[RepoName(r)] # "absent"}

\* cleanup_workspace: batch_cleanup_worktrees over one descriptor per
\* repository.  Each item is best-effort; the batch reports Ok, or an error
\* when an item failed, and the `?` hands that error to the route.
DiscardBatchCleanup ==
    /\ rpc = "cleanup"
    /\ \E failed \in SUBSET CleanupCanFail(entry, args), reported \in BOOLEAN :
        /\ (reported => failed # {})
        /\ entry' = AfterBatchCleanup(entry, args, failed)
        /\ calls' = Append(calls,
                Call("batch_cleanup_worktrees", [i \in 1..Len(args) |-> RepoPath(args[i])],
                     [i \in 1..Len(args) |-> WorktreePath(args[i])],
                     IF reported THEN CleanupError ELSE None))
        /\ IF reported
           THEN /\ response' = [status |-> 400, repo_name |-> None,
                                message |-> "Workspace cleanup failed"]
                /\ rpc' = "done"
           ELSE /\ response' = response
                /\ rpc' = "rmdir"
    /\ UNCHANGED <<wsDir, branch, args, pre, callNo, commits, createVars, dbVars>>
    /\ UNCHANGED <<strategy, ws, midx, results, mergeRet, recIdx, didx>>
    /\ UNCHANGED <<ensureVars, sweepVars, reqVars>>

\* Mutant: a failure to remove the workspace directory ends the discard.
AfterRemoveDirAll_Propagates(removed) == IF removed THEN "delbranch" ELSE "done"

\* `if let Err(e) = remove_dir_all(..) { error!(..) }`: the failure is logged
\* and cleanup_workspace returns Ok(()); the branch deletions follow.
AfterRemoveDirAll(removed) == "delbranch"

\* cleanup_workspace: remove_dir_all(workspace_dir) when the directory exists;
\* it removes the directory with everything in it, or fails, which is logged.
DiscardRemoveDirAll ==
    /\ rpc = "rmdir"
    /\ IF wsDir
       THEN \E removed \in BOOLEAN :
            /\ wsDir' = ~removed
            /\ entry' = IF removed THEN [n \in EntryNames |-> "absent"] ELSE entry
            /\ calls' = Append(calls,
                    Call("remove_dir_all", NoRef, WorkspaceDir,
                         IF removed THEN None ELSE "RemoveFailed"))
            /\ rpc' = AfterRemoveDirAll(removed)
       ELSE /\ UNCHANGED <<wsDir, entry, calls>>
            /\ rpc' = "delbranch"
    /\ didx' = 1
    /\ UNCHANGED <<branch, args, pre, callNo, commits, createVars, dbVars>>
    /\ UNCHANGED <<strategy, ws, midx, results, mergeRet, recIdx, response>>
    /\ UNCHANGED <<ensureVars, sweepVars, reqVars>>

\* Mutant: the first failing delete_branch ends the loop.
AfterDeleteFailure_Abort(i, n) == n + 1

\* close_workspace_discard after a delete_branch that failed: the failure is
\* logged and the loop goes on with the next repository.
AfterDeleteFailure(i, n) == i + 1

\* close_workspace_discard: delete_branch succeeds in the next repository.
DeleteBranchOk ==
    /\ rpc = "delbranch"
    /\ didx <= Len(args)
    /\ LET r == args[didx] IN
        /\ branch[r]
        /\ branch' = [branch EXCEPT ![r] = FALSE]
        /\ calls' = Append(calls, Call("delete_branch", RepoPath(r), NoRef, None))
    /\ didx' = didx + 1
    /\ UNCHANGED <<wsDir, entry, args, pre, callNo, commits, createVars, dbVars>>
    /\ UNCHANGED <<rpc, strategy, ws, midx, results, mergeRet, recIdx, response>>
    /\ UNCHANGED <<ensureVars, sweepVars, reqVars>>

\* close_workspace_discard: delete_branch fails in the next repository (the
\* branch is missing, or git refuses); the failure is logged.
DeleteBranchErr ==
    /\ rpc = "delbranch"
    /\ didx <= Len(args)
    /\ LET r == args[didx] IN
        calls' = Append(calls, Call("delete_branch", RepoPath(r), NoRef, "DeleteFailed"))
    /\ didx' = AfterDeleteFailure(didx, Len(args))
    /\ UNCHANGED <<fsVars, args, pre, callNo, commits, createVars, dbVars>>
    /\ UNCHANGED <<rpc, strategy, ws, midx, results, mergeRet, recIdx, response>>
    /\ UNCHANGED <<ensureVars, sweepVars, reqVars>>

\* close_workspace_discard returns Ok(()): the route goes on to the database.
DiscardReturnOk ==
    /\ rpc = "delbranch"
    /\ didx > Len(args)
    /\ rpc' = "archive"
    /\ UNCHANGED <<fsVars, args, calls, pre, callNo, commits, createVars, dbVars>>
    /\ UNCHANGED <<strategy, ws, midx, results, mergeRet, recIdx, didx, response>>
    /\ UNCHANGED <<ensureVars, sweepVars, reqVars>>

\* ------------------------------------------------ close_workspace (route)
\* Values of request.strategy; only "merge" and "discard" are valid.
Strategies == {"merge", "discard", "squash"}

BadRequest(msg) == [status |-> 400, repo_name |-> None, message |-> msg]

\* Mutant: a workspace without container reference is closed again.
AlreadyClosed_Never(row) == FALSE

\* `workspace.container_ref` is None: the workspace is already closed.
AlreadyClosed(row) == row.container_ref = NoRef

\* The request starts: Workspace::find_by_id, then the container_ref check.
CloseFind ==
    /\ rpc = "idle"
    /\ callNo' = callNo + 1
    /\ calls' = <<>>
    /\ pre' = Snapshot
    /\ \E s \in Strategies : strategy' = s
    /\ ws' = db
    /\ midx' = 1
    /\ results' = <<>>
    /\ mergeRet' = [kind |-> None]
    /\ recIdx' = 1
    /\ didx' = 1
    /\ IF ~db.exists
       THEN /\ response' = [status |-> 404, repo_name |-> None, message |-> "not found"]
            /\ rpc' = "done"
       ELSE IF AlreadyClosed(db)
       THEN /\ response' = BadRequest("Workspace already closed (no active worktree)")
            /\ rpc' = "done"
       ELSE /\ response' = NoResponse
            /\ rpc' = "checks"
    /\ UNCHANGED <<fsVars, args, commits, createVars, dbVars>>
    /\ UNCHANGED <<ensureVars, sweepVars, reqVars>>

\* has_running_non_dev_server_processes_for_workspace, then the strategy check.
CloseChecks ==
    /\ rpc = "checks"
    /\ IF running
       THEN /\ response' = BadRequest("Cannot close workspace with running processes")
            /\ rpc' = "done"
       ELSE IF strategy # "merge" /\ strategy # "discard"
       THEN /\ response' = BadRequest("Invalid strategy")
            /\ rpc' = "done"
       ELSE /\ response' = response
            /\ rpc' = "repos"
    /\ UNCHANGED <<fsVars, args, calls, pre, callNo, commits, createVars, dbVars>>
    /\ UNCHANGED <<strategy, ws, midx, results, mergeRet, recIdx, didx>>
    /\ UNCHANGED <<ensureVars, sweepVars, reqVars>>

\* find_repos_with_target_branch_for_workspace, then the branch on the strategy.
CloseLoadRepos ==
    /\ rpc = "repos"
    /\ rpc' = IF strategy = "merge" THEN "merge" ELSE "cleanup"
    /\ UNCHANGED <<fsVars, args, calls, pre, callNo, commits, createVars, dbVars>>
    /\ UNCHANGED <<strategy, ws, midx, results, mergeRet, recIdx, didx, response>>
    /\ UNCHANGED <<ensureVars, sweepVars, reqVars>>

\* Mutant: the records are taken for written after the first one.
AllRecorded_AfterFirst(i, res) == i > 1

\* `for result in &merge_results` is over: every result has its record.
AllRecorded(i, res) == i > Len(res)

\* The DirectMerge row written for one merge result.
DirectMergeOf(res) ==
    [repo_id |-> res.repo_id, target_branch |-> res.target_branch,
     merge_commit_sha |-> res.merge_commit_sha]

\* Merge::create_direct for the next merge result.
RecordMerge ==
    /\ rpc = "record"
    /\ recIdx <= Len(mergeRet.results)
    /\ ~AllRecorded(recIdx, mergeRet.results)
    /\ merges' = Append(merges, DirectMergeOf(mergeRet.results[recIdx]))
    /\ recIdx' = recIdx + 1
    /\ UNCHANGED <<fsVars, args, calls, pre, callNo, commits, createVars>>
    /\ UNCHANGED <<db, taskStatus, running>>
    /\ UNCHANGED <<rpc, strategy, ws, midx, results, mergeRet, didx, response>>
    /\ UNCHANGED <<ensureVars, sweepVars, reqVars>>

\* Merge::create_direct fails: the `?` ends the request with a database error.
RecordMergeErr ==
    /\ rpc = "record"
    /\ recIdx <= Len(mergeRet.results)
    /\ ~AllRecorded(recIdx, mergeRet.results)
    /\ response' = [status |-> 500, repo_name |-> None, message |-> "database error"]
    /\ rpc' = "done"
    /\ UNCHANGED <<fsVars, args, calls, pre, callNo, commits, createVars, dbVars>>
    /\ UNCHANGED <<strategy, ws, midx, results, mergeRet, recIdx, didx>>
    /\ UNCHANGED <<ensureVars, sweepVars, reqVars>>

\* A query or an update of the database fails where the route awaits one
\* with `?` (the running-process query, the repositories query, set_archived,
\* clear_container_ref, Task::update_status): the request ends there.
CloseDbErr ==
    /\ rpc \in {"checks", "repos", "archive", "clearref", "status"}
    /\ response' = [status |-> 500, repo_name |-> None, message |-> "database error"]
    /\ rpc' = "done"
    /\ UNCHANGED <<fsVars, args, calls, pre, callNo, commits, createVars, dbVars>>
    /\ UNCHANGED <<strategy, ws, midx, results, mergeRet, recIdx, didx>>
    /\ UNCHANGED <<ensureVars, sweepVars, reqVars>>

\* Every record is written: the cleanup of the workspace starts.
RecordDone ==
    /\ rpc = "record"
    /\ AllRecorded(recIdx, mergeRet.results)
    /\ rpc' = "cleanup"
    /\ UNCHANGED <<fsVars, args, calls, pre, callNo, commits, createVars, dbVars>>
    /\ UNCHANGED <<strategy, ws, midx, results, mergeRet, recIdx, didx, response>>
    /\ UNCHANGED <<ensureVars, sweepVars, reqVars>>

\* Workspace::set_archived(pool, workspace_id, true)
DbSetArchived ==
    /\ rpc = "archive"
    /\ db' = [db EXCEPT !.archived = TRUE]
    /\ rpc' = "clearref"
    /\ UNCHANGED <<fsVars, args, calls, pre, callNo, commits, createVars>>
    /\ UNCHANGED <<taskStatus, merges, running>>
    /\ UNCHANGED <<strategy, ws, midx, results, mergeRet, recIdx, didx, response>>
    /\ UNCHANGED <<ensureVars, sweepVars, reqVars>>

\* Workspace::clear_container_ref(pool, workspace_id)
DbClearContainerRef ==
    /\ rpc = "clearref"
    /\ db' = [db EXCEPT !.container_ref = NoRef]
    /\ rpc' = "status"
    /\ UNCHANGED <<fsVars, args, calls, pre, callNo, commits, createVars>>
    /\ UNCHANGED <<taskStatus, merges, running>>
    /\ UNCHANGED <<strategy, ws, midx, results, mergeRet, recIdx, didx, response>>
    /\ UNCHANGED <<ensureVars, sweepVars, reqVars>>

\* Mutant: the task is Done whatever the strategy.
NewStatus_AlwaysDone(s) == "done"

\* `new_status`: Done after a merge, Todo after a discard.
NewStatus(s) == IF s = "merge" THEN "done" ELSE "todo"

\* Task::update_status, then the success response.
DbUpdateStatus ==
    /\ rpc = "status"
    /\ taskStatus' = NewStatus(strategy)
    /\ response' =
        [status |-> 200, repo_name |-> None,
         message |-> IF strategy = "merge" THEN "merged" ELSE "discarded",
         merge_commit_sha |->
            IF strategy = "merge" /\ Len(mergeRet.results) > 0
            THEN mergeRet.results[1].merge_commit_sha ELSE NoRef]
    /\ rpc' = "done"
    /\ UNCHANGED <<fsVars, args, calls, pre, callNo, commits, createVars>>
    /\ UNCHANGED <<db, merges, running>>
    /\ UNCHANGED <<strategy, ws, midx, results, mergeRet, recIdx, didx>>
    /\ closes' = closes + 1
    /\ UNCHANGED <<ensureVars, sweepVars, parked>>

\* A close request arrives for a workspace that is open with its worktrees in
\* place (a workspace branch may be missing in a repository), that is already
\* closed, or that is unknown.
InitClose ==
    /\ args \in InputLists
    /\ db \in {OpenRow, ClosedRow, NoRow}
    /\ wsDir = (db = OpenRow)
    /\ NoLegacy
    /\ NoSweep
    /\ entry \in {e \in [EntryNames -> EntryKinds] :
                    /\ \A r \in Repos :
                        e[RepoName(r)] =
                            IF db = OpenRow /\ r \in RangeOf(args)
                            THEN "worktree" ELSE "absent"
                    /\ e[Foreign] \in {"absent", "file"}
                    /\ (~wsDir => e[Foreign] = "absent")}
    /\ branch \in {b \in [Repos -> BOOLEAN] :
                    \A r \in Repos : b[r] => (db = OpenRow /\ r \in RangeOf(args))}
    /\ running \in BOOLEAN
    /\ InitIdle
    /\ pre = Snapshot

NextClose ==
    \/ CloseFind
    \/ CloseChecks
    \/ CloseLoadRepos
    \/ MergeOk
    \/ MergeErr
    \/ MergeJoinErr
    \/ MergeReturnOk
    \/ RecordMerge
    \/ RecordMergeErr
    \/ CloseDbErr
    \/ RecordDone
    \/ DiscardBatchCleanup
    \/ DiscardRemoveDirAll
    \/ DeleteBranchOk
    \/ DeleteBranchErr
    \/ DiscardReturnOk
    \/ DbSetArchived
    \/ DbClearContainerRef
    \/ DbUpdateStatus

SpecClose == InitClose /\ [][NextClose]_vars

\* ------------------------------------ two close_workspace requests
\* The request that is running, as the record that is kept while the other
\* request runs.
ActiveRequest ==
    [rpc |-> rpc, strategy |-> strategy, ws |-> ws, midx |-> midx,
     results |-> results, mergeRet |-> mergeRet, recIdx |-> recIdx,
     didx |-> didx, response |-> response, calls |-> calls, pre |-> pre]

\* The handler is an async function without a lock: at each `.await` the
\* runtime may go on with the other request for the same workspace.  A
\* request that is never resumed is one whose process crashed or whose
\* caller went away.
Switch ==
    /\ rpc # "idle"
    /\ parked.rpc # "done"
    /\ parked' = ActiveRequest
    /\ rpc' = parked.rpc
    /\ strategy' = parked.strategy
    /\ ws' = parked.ws
    /\ midx' = parked.midx
    /\ results' = parked.results
    /\ mergeRet' = parked.mergeRet
    /\ recIdx' = parked.recIdx
    /\ didx' = parked.didx
    /\ response' = parked.response
    /\ calls' = parked.calls
    /\ pre' = parked.pre
    /\ UNCHANGED <<fsVars, args, callNo, commits, createVars, dbVars, closes>>
    /\ UNCHANGED <<ensureVars, sweepVars>>

\* Two requests arrive for a workspace: one that is unknown, closed or has
\* running processes, or an open one of one or of two repositories whose
\* worktrees and workspace branches are in place.
InitTwoCloses ==
    /\ InitClose
    /\ (db = OpenRow /\ ~running) =>
        /\ args \in {<<1>>, <<1, 2>>}
        /\ entry[Foreign] = "absent"
        /\ \A r \in RangeOf(args) : branch[r]

NextTwoCloses ==
    \/ NextClose
    \/ Switch

SpecTwoCloses == InitTwoCloses /\ [][NextTwoCloses]_vars

\* ------------------------------ migrate_legacy_worktree, ensure_workspace_exists
\* `workspace_dir.with_file_name(format!("{}-migrating", file_name))`
TempPath(dir) == Append(SubSeq(dir, 1, Len(dir) - 1), <<dir[Len(dir)], "-migrating">>)

\* `workspace_dir.join(".git")`
GitFile(dir) == JoinPath(dir, ".git")

\* What the .git entry of the workspace directory can be.
GitKinds == {"absent", "file", "dir"}

\* Mutant: the detection does not look at workspace_dir/<repo_name>.
IsOldStyle_IgnoresExpected(d, g, e, name) == d /\ g # "absent" /\ g = "file"

\* Mutant: a .git directory is taken for the legacy layout too.
IsOldStyle_AnyGit(d, g, e, name) == d /\ g # "absent" /\ e[name] = "absent"

\* `is_old_style`: the directory exists, .git exists in it and is a file, and
\* workspace_dir/<repo_name> does not exist.
IsOldStyle(d, g, e, name) ==
    d /\ g # "absent" /\ g = "file" /\ e[name] = "absent"

\* A record of one call to WorktreeManager::move_worktree.
MoveCall(r, from, to, err) ==
    [op |-> "move_worktree", repo |-> RepoPath(r), from |-> from, path |-> to,
     ok |-> (err = None), err |-> err]

\* WorktreeManager::move_worktree can succeed only onto a path that does not
\* exist; a call that fails leaves both paths as they were.
MoveWorktreeCanSucceed(destExists) == ~destExists

\* Mutant: migrate_legacy_worktree always reports that it migrated.
Migrated_Always(b) == [kind |-> "Ok", migrated |-> TRUE]

\* Result<bool, WorkspaceError> of migrate_legacy_worktree.
Migrated(b) == [kind |-> "Ok", migrated |-> b]
Failed(e) == [kind |-> "Err", err |-> e]
Succeeded == [kind |-> "Ok"]

\* Filesystem and repositories, and the outcome of the previous call, when a
\* call of ensure_workspace_exists or migrate_legacy_worktree starts.
EnsureSnapshot ==
    [wsDir |-> wsDir, entry |-> entry, branch |-> branch, rootGit |-> rootGit,
     tmpDir |-> tmpDir, prev |-> eret, prevMigrate |-> mret,
     prevCaller |-> caller]

CanStartEnsure == epc \in {"idle", "done"} /\ callNo < MaxCalls

StartEnsure(who) ==
    /\ callNo' = callNo + 1
    /\ calls' = <<>>
    /\ pre' = EnsureSnapshot
    /\ caller' = who
    /\ eidx' = 1
    /\ mret' = NoResult

\* Mutant: the second move is left out.
MigrateNext_SkipsSecondMove(step, ok) ==
    CASE step = "m_move1" -> IF ok THEN "m_mkdir" ELSE "m_ret"
      [] step = "m_mkdir" -> IF ok THEN "m_rmtmp" ELSE "m_ret"
      [] step = "m_move2" -> IF ok THEN "m_rmtmp" ELSE "m_ret"
      [] step = "m_rmtmp" -> "m_ret"

\* Mutant: a failing second move is followed by the removal of the temporary
\* directory.
MigrateNext_CleansUpOnError(step, ok) ==
    CASE step = "m_move1" -> IF ok THEN "m_mkdir" ELSE "m_ret"
      [] step = "m_mkdir" -> IF ok THEN "m_move2" ELSE "m_ret"
      [] step = "m_move2" -> "m_rmtmp"
      [] step = "m_rmtmp" -> "m_ret"

\* The order of the steps of migrate_legacy_worktree: each `?` returns at a
\* failure; the removal of the temporary directory tolerates its own.
MigrateNext(step, ok) ==
    CASE step = "m_move1" -> IF ok THEN "m_mkdir" ELSE "m_ret"
      [] step = "m_mkdir" -> IF ok THEN "m_move2" ELSE "m_ret"
      [] step = "m_move2" -> IF ok THEN "m_rmtmp" ELSE "m_ret"
      [] step = "m_rmtmp" -> "m_ret"

\* The empty worktree-less directory that is left where everything was moved
\* away from.
NoEntries == [n \in EntryNames |-> "absent"]

\* The repository migrate_legacy_worktree is called with.
MigratedRepo == args[1]

\* ensure_workspace_exists with an empty list: Err(NoRepositories).
EnsureNoRepositories ==
    /\ CanStartEnsure
    /\ NoRepos(args)
    /\ StartEnsure("ensure")
    /\ eret' = Failed("NoRepositories")
    /\ epc' = "done"
    /\ UNCHANGED <<fsVars, rootGit, tmpDir, args, commits, createVars, dbVars, closeVars,
                   sweepVars, reqVars>>

\* ensure_workspace_exists with a non-empty list: a single repository goes
\* through migrate_legacy_worktree first.
EnsureStart ==
    /\ CanStartEnsure
    /\ ~NoRepos(args)
    /\ StartEnsure("ensure")
    /\ eret' = NoResult
    /\ epc' = IF Len(args) = 1 THEN "m_check" ELSE "e_mkdir"
    /\ UNCHANGED <<fsVars, rootGit, tmpDir, args, commits, createVars, dbVars, closeVars,
                   sweepVars, reqVars>>

\* migrate_legacy_worktree called on its own.
MigrateStart ==
    /\ CanStartEnsure
    /\ ~NoRepos(args)
    /\ StartEnsure("migrate")
    /\ eret' = NoResult
    /\ epc' = "m_check"
    /\ UNCHANGED <<fsVars, rootGit, tmpDir, args, commits, createVars, dbVars, closeVars,
                   sweepVars, reqVars>>

\* The layout is not the legacy one: Ok(false), nothing is touched.
MigrateNotOldStyle ==
    /\ epc = "m_check"
    /\ ~IsOldStyle(wsDir, rootGit, entry, RepoName(MigratedRepo))
    /\ mret' = Migrated(FALSE)
    /\ epc' = "m_ret"
    /\ UNCHANGED <<fsVars, rootGit, tmpDir, args, calls, pre, callNo, caller, eidx, eret>>
    /\ UNCHANGED <<commits, createVars, dbVars, closeVars, sweepVars, reqVars>>

\* Step 1: the workspace directory, which is the worktree, is moved to the
\* temporary path.
MigrateMove1Ok ==
    /\ epc = "m_check"
    /\ IsOldStyle(wsDir, rootGit, entry, RepoName(MigratedRepo))
    /\ MoveWorktreeCanSucceed(tmpDir # "absent")
    /\ wsDir' = FALSE
    /\ rootGit' = "absent"
    /\ entry' = NoEntries
    /\ tmpDir' = "worktree"
    /\ calls' = Append(calls,
            MoveCall(MigratedRepo, WorkspaceDir, TempPath(WorkspaceDir), None))
    /\ epc' = MigrateNext("m_move1", TRUE)
    /\ UNCHANGED <<branch, args, pre, callNo, caller, eidx, mret, eret>>
    /\ UNCHANGED <<commits, createVars, dbVars, closeVars, sweepVars, reqVars>>

\* Step 1 fails: the error is returned.
MigrateMove1Err ==
    /\ epc = "m_check"
    /\ IsOldStyle(wsDir, rootGit, entry, RepoName(MigratedRepo))
    /\ calls' = Append(calls,
            MoveCall(MigratedRepo, WorkspaceDir, TempPath(WorkspaceDir), "MoveFailed"))
    /\ mret' = Failed("MoveFailed")
    /\ epc' = MigrateNext("m_move1", FALSE)
    /\ UNCHANGED <<fsVars, rootGit, tmpDir, args, pre, callNo, caller, eidx, eret>>
    /\ UNCHANGED <<commits, createVars, dbVars, closeVars, sweepVars, reqVars>>

\* Step 2: create_dir_all(workspace_dir) makes the directory again, or fails.
MigrateCreateDir ==
    /\ epc = "m_mkdir"
    /\ \E ok \in BOOLEAN :
        /\ wsDir' = (wsDir \/ ok)
        /\ calls' = Append(calls,
                Call("create_dir_all", NoRef, WorkspaceDir,
                     IF ok THEN None ELSE "Io"))
        /\ mret' = IF ok THEN mret ELSE Failed("Io")
        /\ epc' = MigrateNext("m_mkdir", ok)
    /\ UNCHANGED <<entry, branch, rootGit, tmpDir, args, pre, callNo, caller, eidx, eret>>
    /\ UNCHANGED <<commits, createVars, dbVars, closeVars, sweepVars, reqVars>>

\* Step 3: the worktree is moved from the temporary path to
\* workspace_dir/<repo_name>.
MigrateMove2Ok ==
    /\ epc = "m_move2"
    /\ tmpDir = "worktree"
    /\ MoveWorktreeCanSucceed(entry[RepoName(MigratedRepo)] # "absent")
    /\ entry' = [entry EXCEPT ![RepoName(MigratedRepo)] = "worktree"]
    /\ tmpDir' = "absent"
    /\ calls' = Append(calls,
            MoveCall(MigratedRepo, TempPath(WorkspaceDir),
                     WorktreePath(MigratedRepo), None))
    /\ epc' = MigrateNext("m_move2", TRUE)
    /\ UNCHANGED <<wsDir, branch, rootGit, args, pre, callNo, caller, eidx, mret, eret>>
    /\ UNCHANGED <<commits, createVars, dbVars, closeVars, sweepVars, reqVars>>

\* Step 3 fails: the error is returned.
MigrateMove2Err ==
    /\ epc = "m_move2"
    /\ calls' = Append(calls,
            MoveCall(MigratedRepo, TempPath(WorkspaceDir),
                     WorktreePath(MigratedRepo), "MoveFailed"))
    /\ mret' = Failed("MoveFailed")
    /\ epc' = MigrateNext("m_move2", FALSE)
    /\ UNCHANGED <<fsVars, rootGit, tmpDir, args, pre, callNo, caller, eidx, eret>>
    /\ UNCHANGED <<commits, createVars, dbVars, closeVars, sweepVars, reqVars>>

\* Step 4: the temporary directory is removed if it still exists, a failure
\* of the removal being ignored; Ok(true).
MigrateRemoveTemp ==
    /\ epc = "m_rmtmp"
    /\ IF tmpDir # "absent"
       THEN \E removed \in BOOLEAN :
            /\ tmpDir' = IF removed THEN "absent" ELSE tmpDir
            /\ calls' = Append(calls,
                    Call("remove_dir_all", NoRef, TempPath(WorkspaceDir),
                         IF removed THEN None ELSE "RemoveFailed"))
       ELSE UNCHANGED <<tmpDir, calls>>
    /\ mret' = Migrated(TRUE)
    /\ epc' = MigrateNext("m_rmtmp", TRUE)
    /\ UNCHANGED <<fsVars, rootGit, args, pre, callNo, caller, eidx, eret>>
    /\ UNCHANGED <<commits, createVars, dbVars, closeVars, sweepVars, reqVars>>

\* Mutant: ensure_workspace_exists goes on to the worktrees after a migration.
AfterMigrate_AlwaysEnsures(ret) ==
    IF ret.kind = "Err" THEN "done" ELSE "e_mkdir"

\* `migrate_legacy_worktree(..).await?` in ensure_workspace_exists: an error
\* is returned, `true` returns Ok(()), `false` goes on.
AfterMigrate(ret) ==
    IF ret.kind = "Err" \/ ret.migrated THEN "done" ELSE "e_mkdir"

\* migrate_legacy_worktree returns, to ensure_workspace_exists or to the
\* caller that called it on its own.
MigrateReturn ==
    /\ epc = "m_ret"
    /\ IF caller = "ensure"
       THEN /\ epc' = AfterMigrate(mret)
            /\ eret' = IF mret.kind = "Err" THEN mret
                       ELSE IF epc' = "done" THEN Succeeded ELSE eret
       ELSE /\ epc' = "done"
            /\ eret' = eret
    /\ UNCHANGED <<fsVars, rootGit, tmpDir, args, calls, pre, callNo, caller, eidx, mret>>
    /\ UNCHANGED <<commits, createVars, dbVars, closeVars, sweepVars, reqVars>>

\* WorktreeManager::ensure_worktree_exists has nothing to do where the
\* worktree is in place, and then succeeds; only a call that has work to do
\* can fail.
EnsureWorktreeCanFail(e, name) == e[name] # "worktree"

\* The entries after ensure_worktree_exists succeeded for the worktree `name`.
AfterEnsureWorktree(e, name) == [e EXCEPT ![name] = "worktree"]

\* `if !workspace_dir.exists() { create_dir_all(workspace_dir).await?; }`
EnsureCreateDirAll ==
    /\ epc = "e_mkdir"
    /\ IF wsDir
       THEN /\ epc' = "e_loop"
            /\ UNCHANGED <<wsDir, calls, eret>>
       ELSE \E ok \in BOOLEAN :
            /\ wsDir' = ok
            /\ calls' = Append(calls,
                    Call("create_dir_all", NoRef, WorkspaceDir,
                         IF ok THEN None ELSE "Io"))
            /\ eret' = IF ok THEN eret ELSE Failed("Io")
            /\ epc' = IF ok THEN "e_loop" ELSE "done"
    /\ UNCHANGED <<entry, branch, rootGit, tmpDir, args, pre, callNo, caller, eidx, mret>>
    /\ UNCHANGED <<commits, createVars, dbVars, closeVars, sweepVars, reqVars>>

\* One iteration of the loop: ensure_worktree_exists succeeds.
EnsureWorktreeOk ==
    /\ epc = "e_loop"
    /\ eidx <= Len(args)
    /\ LET r == args[eidx] IN
        /\ entry' = AfterEnsureWorktree(entry, RepoName(r))
        /\ branch' = [branch EXCEPT ![r] = TRUE]
        /\ calls' = Append(calls,
                Call("ensure_worktree_exists", RepoPath(r), WorktreePath(r), None))
    /\ eidx' = eidx + 1
    /\ UNCHANGED <<wsDir, rootGit, tmpDir, args, pre, callNo, caller, epc, mret, eret>>
    /\ UNCHANGED <<commits, createVars, dbVars, closeVars, sweepVars, reqVars>>

\* One iteration of the loop: ensure_worktree_exists fails and the `?`
\* returns its error.
EnsureWorktreeErr ==
    /\ epc = "e_loop"
    /\ eidx <= Len(args)
    /\ LET r == args[eidx] IN
        /\ EnsureWorktreeCanFail(entry, RepoName(r))
        /\ \E left \in {entry[RepoName(r)], "residue"} :
            entry' = [entry EXCEPT ![RepoName(r)] = left]
        /\ calls' = Append(calls,
                Call("ensure_worktree_exists", RepoPath(r), WorktreePath(r),
                     "EnsureFailed"))
    /\ eret' = Failed("EnsureFailed")
    /\ epc' = "done"
    /\ UNCHANGED <<wsDir, branch, rootGit, tmpDir, args, pre, callNo, caller, eidx, mret>>
    /\ UNCHANGED <<commits, createVars, dbVars, closeVars, sweepVars, reqVars>>

\* The loop is over: Ok(()).
EnsureReturnOk ==
    /\ epc = "e_loop"
    /\ eidx > Len(args)
    /\ eret' = Succeeded
    /\ epc' = "done"
    /\ UNCHANGED <<fsVars, rootGit, tmpDir, args, calls, pre, callNo, caller, eidx, mret>>
    /\ UNCHANGED <<commits, createVars, dbVars, closeVars, sweepVars, reqVars>>

\* A workspace directory as a restart finds it: in the current layout with
\* any of its worktrees missing or damaged, in the legacy layout, or absent.
InitEnsure ==
    /\ args \in InputLists
    /\ wsDir \in BOOLEAN
    /\ rootGit \in {g \in GitKinds : ~wsDir => g = "absent"}
    /\ tmpDir = "absent"
    /\ NoSweep
    /\ entry \in {e \in [EntryNames -> EntryKinds] :
                    /\ \A r \in Repos :
                        e[RepoName(r)] \in
                            IF wsDir /\ r \in RangeOf(args)
                            THEN {"absent", "worktree", "residue"}
                            ELSE {"absent"}
                    /\ e[Foreign] \in {"absent", "file"}
                    /\ (~wsDir => e[Foreign] = "absent")}
    /\ branch = [r \in Repos |->
                    \/ entry[RepoName(r)] = "worktree"
                    \/ (rootGit = "file" /\ args # <<>> /\ r = args[1])]
    /\ db = NoRow
    /\ running = FALSE
    /\ InitIdle
    /\ pre = EnsureSnapshot

NextEnsure ==
    \/ EnsureNoRepositories
    \/ EnsureStart
    \/ MigrateStart
    \/ MigrateNotOldStyle
    \/ MigrateMove1Ok
    \/ MigrateMove1Err
    \/ MigrateCreateDir
    \/ MigrateMove2Ok
    \/ MigrateMove2Err
    \/ MigrateRemoveTemp
    \/ MigrateReturn
    \/ EnsureCreateDirAll
    \/ EnsureWorktreeOk
    \/ EnsureWorktreeErr
    \/ EnsureReturnOk

SpecEnsure == InitEnsure /\ [][NextEnsure]_vars

\* ------------------------------------------------ cleanup_orphan_workspaces
\* A record of one call of the sweep to the registry, the primitive service
\* or the filesystem.
SweepCall(op, path, err, answer) ==
    [op |-> op, repo |-> NoRef, path |-> path, ok |-> (err = None), err |-> err,
     answer |-> answer]

\* The base directories and their entries when the sweep started.
SweepSnapshot == [sub |-> sub, baseDir |-> baseDir]

\* cleanup_orphan_workspaces after one base directory: the custom directory
\* follows the default one when it is a different directory.
AfterBase(b, differs) ==
    IF b = "default" /\ differs THEN "custom" ELSE "done"

\* Mutant: no directory is reclaimed.
IsOrphan_Never(answer) == FALSE

\* Mutant: every directory is reclaimed, whatever the registry answers.
IsOrphan_Always(answer) == TRUE

\* Mutant: a failed lookup counts as "not recorded".
IsOrphan_OnError(answer) == answer # "Ok(true)"

\* `if let Ok(false) = DbWorkspace::container_ref_exists(..)`
IsOrphan(answer) == answer = "Ok(false)"

\* Mutant: the loop over the entries ends at an orphan that could not be
\* reclaimed.
AfterReclaim_Abort(i, n, failed) == IF failed THEN n + 1 ELSE i + 1

\* The loop over the entries after an orphan: the outcome is logged and the
\* next entry follows.
AfterReclaim(i, n, failed) == i + 1

\* The sweep leaves everything but the base directories and its own position
\* alone.
SweepFrame ==
    /\ UNCHANGED <<fsVars, args, pre, callNo, commits, createVars, dbVars, closeVars>>
    /\ UNCHANGED <<ensureVars, reqVars, toggle, distinct, baseDir, registry>>

\* DISABLE_WORKTREE_CLEANUP is set: the sweep returns at once.
SweepDisabled ==
    /\ spc = "idle"
    /\ toggle
    /\ spc' = "done"
    /\ UNCHANGED <<sub, sbase, sidx, calls>>
    /\ SweepFrame

\* The sweep starts with the default base directory.
SweepStart ==
    /\ spc = "idle"
    /\ ~toggle
    /\ sbase' = "default"
    /\ spc' = "base"
    /\ UNCHANGED <<sub, sidx, calls>>
    /\ SweepFrame

\* Where the sweep goes after base directory sbase.
LeaveBase ==
    LET next == AfterBase(sbase, distinct) IN
        /\ spc' = IF next = "done" THEN "done" ELSE "base"
        /\ sbase' = IF next = "done" THEN sbase ELSE next

\* cleanup_orphans_in_directory: the base directory does not exist.
SweepBaseMissing ==
    /\ spc = "base"
    /\ baseDir[sbase] = "missing"
    /\ LeaveBase
    /\ UNCHANGED <<sub, sidx, calls>>
    /\ SweepFrame

\* cleanup_orphans_in_directory: read_dir of the base directory fails.
SweepBaseUnreadable ==
    /\ spc = "base"
    /\ baseDir[sbase] = "present"
    /\ calls' = Append(calls, SweepCall("read_dir", <<sbase>>, "Io", None))
    /\ LeaveBase
    /\ UNCHANGED <<sub, sidx>>
    /\ SweepFrame

\* cleanup_orphans_in_directory: read_dir of the base directory succeeds.
SweepBaseListed ==
    /\ spc = "base"
    /\ baseDir[sbase] = "present"
    /\ calls' = Append(calls, SweepCall("read_dir", <<sbase>>, None, None))
    /\ sidx' = 1
    /\ spc' = "entries"
    /\ UNCHANGED <<sub, sbase>>
    /\ SweepFrame

\* The next entry, a directory, cannot be read: `continue`.
SweepEntryErr ==
    /\ spc = "entries"
    /\ sidx <= NumSubdirs
    /\ sub[sbase][sidx].kind = "dir"
    /\ calls' = Append(calls, SweepCall("dir_entry", SubPath(sbase, sidx), "Io", None))
    /\ sidx' = sidx + 1
    /\ UNCHANGED <<sub, sbase, spc>>
    /\ SweepFrame

\* The next entry is not a directory: `continue`.
SweepNotDir ==
    /\ spc = "entries"
    /\ sidx <= NumSubdirs
    /\ sub[sbase][sidx].kind # "dir"
    /\ sidx' = sidx + 1
    /\ UNCHANGED <<sub, sbase, spc, calls>>
    /\ SweepFrame

\* DbWorkspace::container_ref_exists answers for a directory: a recorded
\* path and a failed lookup are passed over, an orphan is reclaimed.
SweepLookup ==
    /\ spc = "entries"
    /\ sidx <= NumSubdirs
    /\ sub[sbase][sidx].kind = "dir"
    /\ \E answer \in {IF SubPath(sbase, sidx) \in registry
                      THEN "Ok(true)" ELSE "Ok(false)", "Err"} :
        /\ calls' = Append(calls,
                SweepCall("container_ref_exists", SubPath(sbase, sidx),
                          IF answer = "Err" THEN "DbError" ELSE None, answer))
        /\ IF IsOrphan(answer)
           THEN spc' = "reclaim" /\ sidx' = sidx
           ELSE spc' = spc /\ sidx' = sidx + 1
    /\ UNCHANGED <<sub, sbase>>
    /\ SweepFrame

\* cleanup_workspace_without_repos: the orphan's children cannot be listed;
\* remove_dir_all is tried on the orphan and its outcome is the result.
SweepListChildrenErr ==
    /\ spc = "reclaim"
    /\ \E removed \in BOOLEAN :
        /\ sub' = [sub EXCEPT ![sbase][sidx] = IF removed THEN NoSub ELSE @]
        /\ calls' = calls \o
                <<SweepCall("read_dir", SubPath(sbase, sidx), "Io", None),
                  SweepCall("remove_dir_all", SubPath(sbase, sidx),
                            IF removed THEN None ELSE "RemoveFailed", None)>>
        /\ sidx' = AfterReclaim(sidx, NumSubdirs, ~removed)
    /\ spc' = "entries"
    /\ UNCHANGED sbase
    /\ SweepFrame

\* cleanup_workspace_without_repos: the children are listed, and
\* cleanup_suspected_worktree is called for a child that is a directory; its
\* failure is logged.
SweepCleanupChild ==
    /\ spc = "reclaim"
    /\ IF sub[sbase][sidx].child = "dir"
       THEN \E cleaned \in BOOLEAN :
            /\ sub' = [sub EXCEPT ![sbase][sidx].child =
                            IF cleaned THEN "none" ELSE @]
            /\ calls' = calls \o
                <<SweepCall("read_dir", SubPath(sbase, sidx), None, None),
                  SweepCall("cleanup_suspected_worktree",
                            Append(SubPath(sbase, sidx), "child"),
                            IF cleaned THEN None ELSE CleanupError, None)>>
       ELSE /\ sub' = sub
            /\ calls' = Append(calls,
                    SweepCall("read_dir", SubPath(sbase, sidx), None, None))
    /\ spc' = "rmorphan"
    /\ UNCHANGED <<sbase, sidx>>
    /\ SweepFrame

\* cleanup_workspace_without_repos: remove_dir_all on the orphan; a failure
\* is logged and Ok(()) is returned all the same.
SweepRemoveOrphan ==
    /\ spc = "rmorphan"
    /\ \E removed \in BOOLEAN :
        /\ sub' = [sub EXCEPT ![sbase][sidx] = IF removed THEN NoSub ELSE @]
        /\ calls' = Append(calls,
                SweepCall("remove_dir_all", SubPath(sbase, sidx),
                          IF removed THEN None ELSE "RemoveFailed", None))
        /\ sidx' = AfterReclaim(sidx, NumSubdirs, ~removed)
    /\ spc' = "entries"
    /\ UNCHANGED sbase
    /\ SweepFrame

\* The entries of the base directory are exhausted.
SweepEntriesDone ==
    /\ spc = "entries"
    /\ sidx > NumSubdirs
    /\ LeaveBase
    /\ UNCHANGED <<sub, sidx, calls>>
    /\ SweepFrame

\* What an entry of a base directory can be when the sweep starts: a file,
\* the directory of a recorded workspace with a worktree in it, or an
\* unrecorded directory with any child.
InitSubs(b) ==
    {s \in [SubNames -> [kind : {"file", "dir"}, child : ChildKinds]] :
        \A d \in SubNames :
            /\ s[d].kind = "file" => s[d].child = "none"
            /\ (s[d].kind = "dir" /\ SubPath(b, d) \in registry) => s[d].child = "dir"}

InitSweep ==
    /\ toggle \in BOOLEAN
    /\ distinct \in BOOLEAN
    /\ baseDir \in [BaseDirs -> {"missing", "present"}]
    /\ (~distinct => baseDir["custom"] = "missing")
    /\ registry \in SUBSET {SubPath(b, d) : b \in BaseDirs, d \in SubNames}
    /\ sub \in [BaseDirs -> [SubNames -> [kind : SubKinds, child : ChildKinds]]]
    /\ \A b \in BaseDirs :
        IF baseDir[b] = "present"
        THEN sub[b] \in InitSubs(b)
        ELSE sub[b] = [d \in SubNames |-> NoSub]
    /\ \A p \in registry : sub[p[1]][p[2]].kind = "dir"
    /\ spc = "idle"
    /\ sbase = "default"
    /\ sidx = 1
    /\ wsDir = FALSE
    /\ rootGit = "absent"
    /\ tmpDir = "absent"
    /\ entry = NoEntries
    /\ branch = [r \in Repos |-> FALSE]
    /\ args = <<>>
    /\ db = NoRow
    /\ running = FALSE
    /\ InitIdle
    /\ pre = SweepSnapshot

NextSweep ==
    \/ SweepDisabled
    \/ SweepStart
    \/ SweepBaseMissing
    \/ SweepBaseUnreadable
    \/ SweepBaseListed
    \/ SweepEntryErr
    \/ SweepNotDir
    \/ SweepLookup
    \/ SweepListChildrenErr
    \/ SweepCleanupChild
    \/ SweepRemoveOrphan
    \/ SweepEntriesDone

SpecSweep == InitSweep /\ [][NextSweep]_vars

\* ------------------------- cleanup_orphan_workspaces next to other operations
\* The entries of the default base directory the sweep meets here: the
\* workspace directory and its sibling `<name>-migrating`.
LivePaths == <<WorkspaceDir, TempPath(WorkspaceDir)>>

\* `path.is_dir()` for an entry.
LiveIsDir(i) == IF i = 1 THEN wsDir ELSE tmpDir # "absent"

\* DbWorkspace::container_ref_exists(path) for an entry: some workspace row
\* has exactly this path as container reference.  The one reference there
\* can be is the workspace directory, which the sibling's path differs from.
Registered(i) == i = 1 /\ db.exists /\ db.container_ref # NoRef

\* The children of an entry that are directories.
LiveChildDirs(i) ==
    IF i = 1 THEN {n \in EntryNames : entry[n] \in {"worktree", "residue"}} ELSE {}

\* Disk, registry and the positions of the running calls when the sweep
\* starts.
LiveSnapshot ==
    [wsDir |-> wsDir, entry |-> entry, tmpDir |-> tmpDir, db |-> db,
     pc |-> pc, idx |-> idx, ridx |-> ridx, created |-> created, epc |-> epc]

\* What the sweep leaves alone whatever it does.
LiveFrame ==
    /\ UNCHANGED <<branch, args, callNo, commits, createVars, dbVars, closeVars>>
    /\ UNCHANGED <<epc, caller, eidx, mret, eret, reqVars>>
    /\ UNCHANGED <<toggle, distinct, baseDir, sub, registry, sbase>>

\* The sweep starts with the default base directory.
LiveSweepStart ==
    /\ spc = "idle"
    /\ ~toggle
    /\ pre' = LiveSnapshot
    /\ spc' = "base"
    /\ UNCHANGED <<wsDir, entry, rootGit, tmpDir, sidx, calls>>
    /\ LiveFrame

\* The next entry cannot be read: `continue`.
LiveEntryErr ==
    /\ spc = "entries"
    /\ sidx <= Len(LivePaths)
    /\ LiveIsDir(sidx)
    /\ calls' = Append(calls, SweepCall("dir_entry", LivePaths[sidx], "Io", None))
    /\ sidx' = sidx + 1
    /\ UNCHANGED <<wsDir, entry, rootGit, tmpDir, spc, pre>>
    /\ LiveFrame

\* The next entry is not a directory (any more): `continue`.
LiveNotDir ==
    /\ spc = "entries"
    /\ sidx <= Len(LivePaths)
    /\ ~LiveIsDir(sidx)
    /\ sidx' = sidx + 1
    /\ UNCHANGED <<wsDir, entry, rootGit, tmpDir, spc, pre, calls>>
    /\ LiveFrame

\* DbWorkspace::container_ref_exists answers for a directory.
LiveLookup ==
    /\ spc = "entries"
    /\ sidx <= Len(LivePaths)
    /\ LiveIsDir(sidx)
    /\ \E answer \in {IF Registered(sidx)
                      THEN "Ok(true)" ELSE "Ok(false)", "Err"} :
        /\ calls' = Append(calls,
                SweepCall("container_ref_exists", LivePaths[sidx],
                          IF answer = "Err" THEN "DbError" ELSE None, answer))
        /\ IF IsOrphan(answer)
           THEN spc' = "reclaim" /\ sidx' = sidx
           ELSE spc' = spc /\ sidx' = sidx + 1
    /\ UNCHANGED <<wsDir, entry, rootGit, tmpDir, pre>>
    /\ LiveFrame

\* Disk after remove_dir_all on an entry.
LiveRemoved(i) ==
    /\ wsDir' = IF i = 1 THEN FALSE ELSE wsDir
    /\ entry' = IF i = 1 THEN NoEntries ELSE entry
    /\ rootGit' = IF i = 1 THEN "absent" ELSE rootGit
    /\ tmpDir' = IF i = 2 THEN "absent" ELSE tmpDir

\* cleanup_workspace_without_repos: the orphan's children cannot be listed
\* (or it is gone); remove_dir_all is tried on it.
LiveListChildrenErr ==
    /\ spc = "reclaim"
    /\ \E removed \in BOOLEAN :
        /\ (~LiveIsDir(sidx) => ~removed)
        /\ IF removed THEN LiveRemoved(sidx)
           ELSE UNCHANGED <<wsDir, entry, rootGit, tmpDir>>
        /\ calls' = Append(calls,
                SweepCall("remove_dir_all", LivePaths[sidx],
                          IF removed THEN None ELSE "RemoveFailed", None))
        /\ sidx' = AfterReclaim(sidx, Len(LivePaths), ~removed)
    /\ spc' = "entries"
    /\ UNCHANGED pre
    /\ LiveFrame

\* cleanup_workspace_without_repos: cleanup_suspected_worktree for every
\* child that is a directory; a failure is logged.
LiveCleanupChildren ==
    /\ spc = "reclaim"
    /\ LiveIsDir(sidx)
    /\ \E cleaned \in SUBSET LiveChildDirs(sidx) :
        entry' = [n \in EntryNames |-> IF n \in cleaned THEN "absent" ELSE entry[n]]
    /\ spc' = "rmorphan"
    /\ UNCHANGED <<wsDir, rootGit, tmpDir, sidx, pre, calls>>
    /\ LiveFrame

\* cleanup_workspace_without_repos: remove_dir_all on the orphan if it still
\* exists; a failure is logged.
LiveRemoveOrphan ==
    /\ spc = "rmorphan"
    /\ IF LiveIsDir(sidx)
       THEN \E removed \in BOOLEAN :
            /\ IF removed THEN LiveRemoved(sidx)
               ELSE UNCHANGED <<wsDir, entry, rootGit, tmpDir>>
            /\ calls' = Append(calls,
                    SweepCall("remove_dir_all", LivePaths[sidx],
                              IF removed THEN None ELSE "RemoveFailed", None))
            /\ sidx' = AfterReclaim(sidx, Len(LivePaths), ~removed)
       ELSE /\ UNCHANGED <<wsDir, entry, rootGit, tmpDir, calls>>
            /\ sidx' = AfterReclaim(sidx, Len(LivePaths), FALSE)
    /\ spc' = "entries"
    /\ UNCHANGED pre
    /\ LiveFrame

\* The entries of the base directory are exhausted.
LiveEntriesDone ==
    /\ spc = "entries"
    /\ sidx > Len(LivePaths)
    /\ spc' = "done"
    /\ UNCHANGED <<wsDir, entry, rootGit, tmpDir, sidx, pre, calls>>
    /\ LiveFrame

\* The sweep runs next to one create_workspace call for a workspace that is
\* not registered yet, or next to an ensure_workspace_exists or
\* migrate_legacy_worktree call for a registered workspace of one repository
\* in the legacy layout.
InitLive ==
    /\ toggle \in BOOLEAN
    /\ distinct = FALSE
    /\ baseDir = [b \in BaseDirs |-> IF b = "default" THEN "present" ELSE "missing"]
    /\ sub = [b \in BaseDirs |-> [d \in SubNames |-> NoSub]]
    /\ registry = {}
    /\ spc = "idle"
    /\ sbase = "default"
    /\ sidx = 1
    /\ tmpDir = "absent"
    /\ entry = NoEntries
    /\ running = FALSE
    /\ InitIdle
    /\ \/ /\ db = NoRow
          /\ args \in {s \in InputLists : Len(s) \in 1..2}
          /\ wsDir = FALSE
          /\ rootGit = "absent"
          /\ branch \in [Repos -> BOOLEAN]
          /\ pre = Snapshot
       \/ /\ db = OpenRow
          /\ args \in {s \in InputLists : Len(s) = 1}
          /\ wsDir = TRUE
          /\ rootGit = "file"
          /\ branch = [r \in Repos |-> r = args[1]]
          /\ pre = EnsureSnapshot

NextLive ==
    \/ db = NoRow /\ pc # "done" /\ NextCreate
    \/ db # NoRow /\ NextEnsure
    \/ SweepDisabled
    \/ LiveSweepStart
    \/ SweepBaseUnreadable
    \/ SweepBaseListed
    \/ LiveEntryErr
    \/ LiveNotDir
    \/ LiveLookup
    \/ LiveListChildrenErr
    \/ LiveCleanupChildren
    \/ LiveRemoveOrphan
    \/ LiveEntriesDone

SpecLive == InitLive /\ [][NextLive]_vars

\* ------------------------------- create_workspace and close_workspace together
\* A workspace directory that create_workspace finds occupied: it may hold a
\* file and what earlier workspaces left of repositories outside the list.
InitOccupied ==
    /\ args \in InputLists
    /\ wsDir \in BOOLEAN
    /\ NoLegacy
    /\ NoSweep
    /\ entry \in {e \in [EntryNames -> EntryKinds] :
                    /\ \A r \in Repos :
                        e[RepoName(r)] \in
                            IF wsDir /\ r \notin RangeOf(args)
                            THEN {"absent", "worktree", "residue"}
                            ELSE {"absent"}
                    /\ e[Foreign] \in {"absent", "file"}
                    /\ (~wsDir => e[Foreign] = "absent")}
    /\ branch \in {b \in [Repos -> BOOLEAN] :
                    \A r \in Repos : entry[RepoName(r)] = "worktree" => b[r]}
    /\ db = NoRow
    /\ running = FALSE
    /\ InitIdle
    /\ pre = Snapshot

\* A workspace that is not registered is being created; a registered one is
\* being closed.
NextCreateOrClose ==
    \/ db = NoRow /\ NextCreate
    \/ db # NoRow /\ NextClose

SpecCreateOrClose == (InitOccupied \/ InitClose) /\ [][NextCreateOrClose]_vars

\* ------------------------------------------- create_workspace: claims
\* The call has returned.
Returned == pc = "done" /\ callNo >= 1

IsCreate(c) == c.op = "create_worktree"
IsCleanup(c) == c.op = "cleanup_worktree"

\* Positions of `calls` holding a create-worktree call that failed.
FailedCreates == {i \in 1..Len(calls) : IsCreate(calls[i]) /\ ~calls[i].ok}

\* Positions of `calls` holding a cleanup call that failed.
FailedCleanups == {i \in 1..Len(calls) : IsCleanup(calls[i]) /\ ~calls[i].ok}

\* Every create-worktree call of the N inputs was issued and succeeded.
AllCreatesSucceeded ==
    /\ Len(calls) = Len(args)
    /\ \A i \in 1..Len(calls) : IsCreate(calls[i]) /\ calls[i].ok

\* C1: a create_workspace over N >= 1 inputs whose create-worktree calls all
\* succeed returns a container with exactly N worktrees, in input order, one
\* per input repository, each at workspace_dir joined with the repository name.
C1_ContainerMatchesInput ==
    (Returned /\ Len(args) >= 1 /\ (AllCreatesSucceeded \/ result.kind = "Ok")) =>
        /\ result.kind = "Ok"
        /\ AllCreatesSucceeded
        /\ result.container.workspace_dir = WorkspaceDir
        /\ Len(result.container.worktrees) = Len(args)
        /\ \A i \in 1..Len(args) :
            LET wt == result.container.worktrees[i] IN
                /\ wt.repo_id = args[i]
                /\ wt.repo_name = RepoName(args[i])
                /\ wt.source_repo_path = RepoPath(args[i])
                /\ wt.worktree_path = JoinPath(WorkspaceDir, RepoName(args[i]))

C1_Witness ==
    Returned /\ result.kind = "Ok" /\ Len(args) = NumRepos /\ NumRepos >= 2

\* C2: all-or-nothing.  In every final state where each rollback cleanup
\* succeeded, either the call returned a container and all N worktrees exist,
\* or it returned an error and no worktree created during the call exists.
C2_AllOrNothing ==
    (Returned /\ FailedCleanups = {}) =>
        \/ /\ result.kind = "Ok"
           /\ \A i \in 1..Len(args) : entry[RepoName(args[i])] = "worktree"
        \/ /\ result.kind \in {"NoRepositories", "Io", "PartialCreation"}
           /\ \A i \in 1..Len(created) : entry[created[i].repo_name] = "absent"

C2_Witness ==
    /\ Returned /\ FailedCleanups = {}
    /\ result.kind = "PartialCreation"
    /\ Len(created) >= 2

\* C3: when create-worktree fails for the k-th input, the call fails with
\* PartialCreation naming repository k, cleanup is invoked for exactly the
\* worktrees of repositories 1..k-1 created in this call, and no
\* create-worktree call is ever issued for repositories k+1..N.
C3_FailureAtK ==
    \* create-worktree calls are issued in input order and stop at the first failure
    /\ \A i \in 1..Len(calls) :
        IsCreate(calls[i]) =>
            /\ i <= Len(args)
            /\ calls[i].repo = RepoPath(args[i])
            /\ calls[i].path = WorktreePath(args[i])
            /\ \A j \in 1..(i - 1) : IsCreate(calls[j]) /\ calls[j].ok
    /\ (Returned /\ FailedCreates # {}) =>
        \E k \in 1..Len(args) :
            /\ FailedCreates = {k}
            /\ result.kind = "PartialCreation"
            /\ result.repo = RepoName(args[k])
            /\ Len(calls) = 2 * k - 1
            /\ \A j \in 1..(k - 1) :
                /\ IsCleanup(calls[k + j])
                /\ calls[k + j].path = WorktreePath(args[j])
                /\ calls[k + j].repo = RepoPath(args[j])

C3_Witness ==
    /\ Returned /\ result.kind = "PartialCreation"
    /\ Len(args) = 3 /\ FailedCreates = {2}

\* C4: the rollback is best-effort.  Cleanup is attempted for every worktree
\* created so far, in creation order, even when the cleanup of an earlier one
\* fails, and the returned error stays PartialCreation with the original cause
\* of repository k.
C4_BestEffortRollback ==
    (Returned /\ FailedCreates # {}) =>
        LET k == CHOOSE i \in FailedCreates : TRUE
            cleanups == SubSeq(calls, k + 1, Len(calls))
        IN  /\ Len(cleanups) = Len(created)
            /\ \A j \in 1..Len(created) :
                /\ IsCleanup(cleanups[j])
                /\ cleanups[j].path = created[j].worktree_path
                /\ cleanups[j].repo = created[j].source_repo_path
            /\ result.kind = "PartialCreation"
            /\ result.cause = calls[k].err
            /\ result.cause \in CreateErrors

C4_Witness ==
    /\ Returned /\ result.kind = "PartialCreation"
    /\ \E i \in FailedCleanups : \E j \in (i + 1)..Len(calls) : IsCleanup(calls[j])

C5_WitnessKept ==
    /\ Returned /\ result.kind = "PartialCreation"
    /\ wsDir /\ FailedCleanups # {}

\* C6: create_workspace with an empty input list fails with NoRepositories,
\* calls no primitive and changes nothing on disk: the workspace directory is
\* not created.
C6_EmptyInput ==
    (Returned /\ args = <<>>) =>
        /\ result.kind = "NoRepositories"
        /\ calls = <<>>
        /\ Snapshot = pre

C6_Witness ==
    Returned /\ args = <<>> /\ ~wsDir /\ result.kind = "NoRepositories"

\* C7: a failed create_workspace whose rollback cleanups all succeeded leaves
\* no worktree of the call, removes the directory if it is empty, and leaves
\* behind nothing that makes a repeated call with the same arguments fail:
\* every repository in which create-worktree could succeed before the call
\* still allows it afterwards.
C7_RetryNotBlocked ==
    (Returned /\ result.kind = "PartialCreation" /\ FailedCleanups = {}) =>
        /\ \A i \in 1..Len(created) : entry[created[i].repo_name] = "absent"
        /\ (DirEmpty(entry) => ~wsDir)
        /\ \A r \in RangeOf(args) :
            CreateWorktreeCanSucceed(pre.branch, r) =>
                CreateWorktreeCanSucceed(branch, r)

\* -------------------------------------- close_workspace_merge: claims
IsMerge(c) == c.op = "merge_into_branch"

\* Positions of `calls` holding a merge_into_branch call.
MergeCalls == {i \in 1..Len(calls) : IsMerge(calls[i])}

\* Positions of `calls` holding a merge_into_branch call that failed.
FailedMerges == {i \in MergeCalls : ~calls[i].ok}

\* The target branch of repository args[j] holds the merge commit that
\* merge call j of this request made.
MergeCommitInPlace(j) ==
    commits[args[j]] = Append(pre.commits[args[j]], calls[j].sha)

\* C8: in close_workspace_merge, when the merge of repository k signals a
\* conflict, the call returns MergeConflicts naming repository k with the
\* conflict description, the merge primitive is never invoked for a
\* repository after k, and the merge commits of repositories 1..k-1 stay in
\* place.
C8_ConflictStopsMerge ==
    \* merges are issued in input order and stop at the first failure
    /\ \A i \in MergeCalls :
        /\ i <= Len(args)
        /\ calls[i].repo = RepoPath(args[i])
        /\ \A j \in 1..(i - 1) : IsMerge(calls[j]) /\ calls[j].ok
    /\ \A k \in MergeCalls :
        calls[k].err = "MergeConflicts" =>
            /\ mergeRet = MergeConflictsErr(RepoName(args[k]), calls[k].message)
            /\ MergeCalls = 1..k
            /\ Len(calls) = k
            /\ rpc = "done"
            /\ \A j \in 1..(k - 1) : MergeCommitInPlace(j)

C8_Witness ==
    /\ Len(args) = 3
    /\ mergeRet.kind = "MergeConflicts"
    /\ mergeRet.repo_name = RepoName(args[2])
    /\ rpc = "done"

\* The merge results an outcome of close_workspace_merge hands to its caller.
ResultsReturned(ret) == IF "results" \in DOMAIN ret THEN ret.results ELSE <<>>

\* C9: when close_workspace_merge stops at repository k, the merge results
\* (repository, merge commit id, target branch) of repositories 1..k-1 are
\* still available to the caller and are recorded.
C9_PartialResultsKept ==
    \A k \in FailedMerges :
        rpc = "done" =>
            \A j \in 1..(k - 1) :
                LET res == RepoMergeResultOf(args[j], calls[j].sha) IN
                    /\ \E i \in 1..Len(ResultsReturned(mergeRet)) :
                        ResultsReturned(mergeRet)[i] = res
                    /\ \E i \in 1..Len(merges) : merges[i] = DirectMergeOf(res)

\* C10: close_workspace_merge performs no cleanup.  Whatever its outcome,
\* every step of it leaves every worktree, the workspace directory and the
\* workspace branch of every repository unchanged, writes nothing to the
\* database, and at most adds a merge commit to the target branch of the
\* repository being merged.
C10_MergeNoCleanup ==
    [][rpc = "merge" =>
        /\ wsDir' = wsDir
        /\ entry' = entry
        /\ branch' = branch
        /\ <<db, taskStatus, merges>>' = <<db, taskStatus, merges>>
        /\ \A r \in Repos :
            \/ commits'[r] = commits[r]
            \/ /\ midx <= Len(args) /\ r = args[midx]
               /\ commits'[r] = Append(commits[r], MergeSha(r, Len(commits[r]) + 1))
      ]_vars

C10_Witness ==
    /\ rpc = "record"
    /\ Len(args) >= 2
    /\ \A i \in 1..Len(args) :
        /\ entry[RepoName(args[i])] = "worktree"
        /\ branch[args[i]]
        /\ Len(commits[args[i]]) = 1
    /\ wsDir

C10_WitnessFailed ==
    /\ rpc = "done"
    /\ mergeRet.kind \in {"MergeConflicts", "Git"}
    /\ \E r \in Repos : Len(commits[r]) = 1
    /\ \A i \in 1..Len(args) : entry[RepoName(args[i])] = "worktree"

\* ------------------------------------ close_workspace_discard: claims
\* The calls of `calls` with operation op, in order.
CallsOf(op) == SelectSeq(calls, LAMBDA c : c.op = op)

\* close_workspace_discard has been entered.
DiscardEntered == CallsOf("batch_cleanup_worktrees") # <<>>

\* close_workspace_discard has returned Ok(()).
DiscardReturnedOk ==
    \/ rpc \in {"archive", "clearref", "status"}
    \/ rpc = "done" /\ response.status = 200

\* close_workspace_discard has returned the error of the batch cleanup.
DiscardReturnedErr ==
    /\ rpc = "done"
    /\ DiscardEntered
    /\ ~CallsOf("batch_cleanup_worktrees")[1].ok

\* delete_branch was attempted once in every repository of the list, in order.
BranchDeletionAttemptedEverywhere ==
    /\ Len(CallsOf("delete_branch")) = Len(args)
    /\ \A i \in 1..Len(args) : CallsOf("delete_branch")[i].repo = RepoPath(args[i])

\* C11 as stated: close_workspace_discard always removes the workspace
\* directory and always attempts to delete the branch in every repository of
\* the list, whatever the outcome of the worktree cleanup.
C11_DiscardAlwaysRemoves ==
    (DiscardEntered /\ (DiscardReturnedOk \/ DiscardReturnedErr)) =>
        /\ ~wsDir
        /\ BranchDeletionAttemptedEverywhere

\* C11 amended: when the batch worktree cleanup returns success,
\* close_workspace_discard attempts to remove the workspace directory if it
\* exists (it is gone afterwards unless that removal failed) and attempts to
\* delete the branch in every repository of the list, in order, also when an
\* earlier deletion failed; when the batch cleanup returns an error, neither
\* the directory removal nor any branch deletion is attempted.
C11_DiscardBestEffort ==
    /\ DiscardReturnedOk =>
        /\ BranchDeletionAttemptedEverywhere
        /\ (pre.wsDir => Len(CallsOf("remove_dir_all")) = 1)
        /\ (wsDir <=> (pre.wsDir /\ ~CallsOf("remove_dir_all")[1].ok))
    /\ DiscardReturnedErr =>
        /\ CallsOf("remove_dir_all") = <<>>
        /\ CallsOf("delete_branch") = <<>>
        /\ wsDir = pre.wsDir

C11_Witness ==
    /\ DiscardReturnedOk
    /\ Len(args) = 3
    /\ ~CallsOf("delete_branch")[1].ok
    /\ CallsOf("delete_branch")[2].ok
    /\ ~wsDir

\* ------------------------------------ close_workspace_merge: results, errors
\* C19: when every merge succeeds, close_workspace_merge returns one
\* RepoMergeResult per input pair, in input order, each with that
\* repository's id and name, the merge commit id the primitive returned for
\* it and that pair's target branch; merge_into_branch was called exactly
\* once per repository, in input order.
C19_MergeResultsInOrder ==
    mergeRet.kind = "Ok" =>
        /\ Len(mergeRet.results) = Len(args)
        /\ Len(CallsOf("merge_into_branch")) = Len(args)
        /\ \A i \in 1..Len(args) :
            LET c == CallsOf("merge_into_branch")[i]
                res == mergeRet.results[i]
            IN  /\ c.ok
                /\ c.repo = RepoPath(args[i])
                /\ c.path = TargetBranch(args[i])
                /\ res.repo_id = args[i]
                /\ res.repo_name = RepoName(args[i])
                /\ res.merge_commit_sha = c.sha
                /\ res.target_branch = TargetBranch(args[i])
        \* one call at a time: the merges come first, one after the other
        /\ \A i \in 1..Len(args) : IsMerge(calls[i])

C19_Witness ==
    /\ mergeRet.kind = "Ok"
    /\ Len(mergeRet.results) = 3
    /\ mergeRet.results[1].repo_id > mergeRet.results[2].repo_id

\* C20: close_workspace_merge returns MergeConflicts if and only if the
\* merge primitive of the failing repository signalled a conflict; any other
\* failure, a task that cannot be joined included, stops the call at once
\* with a Git error, and no merge is attempted for the later repositories.
C20_ConflictIffSignalled ==
    /\ (mergeRet.kind = "MergeConflicts") <=>
            (\E k \in FailedMerges : calls[k].err = "MergeConflicts")
    /\ \A k \in FailedMerges :
        /\ calls[k].err # "MergeConflicts" => mergeRet.kind = "Git"
        /\ rpc = "done"
        /\ MergeCalls = 1..k
        /\ Len(calls) = k

C20_Witness ==
    /\ Len(args) = 3
    /\ mergeRet.kind = "Git"
    /\ \E k \in FailedMerges : k = 2 /\ calls[k].err = "JoinError"

C20_WitnessOther ==
    /\ Len(args) = 3
    /\ mergeRet.kind = "Git"
    /\ \E k \in FailedMerges : k = 1 /\ calls[k].err = "WorktreeDirty"

\* ------------------- migrate_legacy_worktree, ensure_workspace_exists: claims
\* The disk and the workspace branches, now and in a snapshot.
DiskNow ==
    [wsDir |-> wsDir, entry |-> entry, branch |-> branch, rootGit |-> rootGit,
     tmpDir |-> tmpDir]

DiskOf(snap) ==
    [wsDir |-> snap.wsDir, entry |-> snap.entry, branch |-> snap.branch,
     rootGit |-> snap.rootGit, tmpDir |-> snap.tmpDir]

\* migrate_legacy_worktree has been entered by the current call.
MigrateEntered == callNo > 0 /\ (caller = "migrate" \/ Len(args) = 1)

\* The three conditions of the legacy layout held when the current call
\* started.
WasLegacy ==
    /\ pre.wsDir
    /\ pre.rootGit = "file"
    /\ pre.entry[RepoName(MigratedRepo)] = "absent"

\* migrate_legacy_worktree has returned.
MigrateReturned == mret.kind # None /\ epc \in {"m_ret", "e_mkdir", "e_loop", "done"}

\* C14: migrate_legacy_worktree moves something only when the workspace
\* directory exists, directly contains a .git entry that is a file, and
\* workspace_dir/<repo_name> does not exist.  When one of the three is false
\* it returns "not migrated" without a move-worktree call, without creating
\* a directory and without removing anything.
C14_MovesOnlyLegacy ==
    /\ CallsOf("move_worktree") # <<>> => (MigrateEntered /\ WasLegacy)
    /\ (MigrateEntered /\ ~WasLegacy /\ epc \in {"m_ret", "done"}
            /\ (caller = "migrate" \/ epc = "m_ret")) =>
        /\ mret.kind = "Ok" /\ ~mret.migrated
        /\ calls = <<>>
        /\ DiskNow = DiskOf(pre)

C14_Witness ==
    /\ caller = "migrate"
    /\ epc = "done"
    /\ pre.wsDir
    /\ pre.rootGit = "file"
    /\ pre.entry[RepoName(MigratedRepo)] = "residue"
    /\ mret.kind = "Ok" /\ ~mret.migrated

C14_WitnessGitDir ==
    /\ caller = "migrate"
    /\ epc = "done"
    /\ pre.wsDir
    /\ pre.rootGit = "dir"
    /\ pre.entry[RepoName(MigratedRepo)] = "absent"
    /\ mret.kind = "Ok" /\ ~mret.migrated

WorktreeAtRoot == wsDir /\ rootGit = "file"
WorktreeAtTemp == tmpDir = "worktree"
WorktreeAtExpected == entry[RepoName(MigratedRepo)] = "worktree"

\* The two moves of the migration, in the order of the code.
MigrationMoves ==
    <<[from |-> WorkspaceDir, to |-> TempPath(WorkspaceDir)],
      [from |-> TempPath(WorkspaceDir), to |-> WorktreePath(MigratedRepo)]>>

\* C18: the migration never loses the worktree.  In every state during or
\* after migrate_legacy_worktree on a legacy layout, a failure at any step
\* included, the worktree is at exactly one of the workspace root, the
\* `-migrating` directory and workspace_dir/<repo_name>; a failing step
\* returns its error, no later step runs, no move is made back, and the
\* temporary directory is removed only after the second move succeeded.
C18_WorktreeNeverLost ==
    (MigrateEntered /\ WasLegacy /\ CallsOf("ensure_worktree_exists") = <<>>) =>
        /\ Cardinality({loc \in {"root", "temp", "expected"} :
                \/ loc = "root" /\ WorktreeAtRoot
                \/ loc = "temp" /\ WorktreeAtTemp
                \/ loc = "expected" /\ WorktreeAtExpected}) = 1
        \* the moves are the two of the code, in order, never one back
        /\ Len(CallsOf("move_worktree")) <= 2
        /\ \A i \in 1..Len(CallsOf("move_worktree")) :
            /\ CallsOf("move_worktree")[i].from = MigrationMoves[i].from
            /\ CallsOf("move_worktree")[i].path = MigrationMoves[i].to
        \* a failed step is the last step, and its error is what is returned
        /\ \A i \in 1..Len(calls) :
            ~calls[i].ok /\ calls[i].op # "remove_dir_all" =>
                /\ i = Len(calls)
                /\ mret = Failed(calls[i].err)
                /\ epc \in {"m_ret", "done"}
        \* the temporary directory goes only after the second move succeeded
        /\ (WasLegacy /\ pre.tmpDir = "absent" /\ ~WorktreeAtTemp
                /\ ~WorktreeAtRoot) =>
                /\ Len(CallsOf("move_worktree")) = 2
                /\ CallsOf("move_worktree")[2].ok
        /\ \A i \in 1..Len(calls) :
            calls[i].op = "remove_dir_all" =>
                /\ Len(CallsOf("move_worktree")) = 2
                /\ CallsOf("move_worktree")[2].ok

C18_Witness ==
    /\ caller = "migrate"
    /\ epc = "done"
    /\ WasLegacy
    /\ mret = Failed("MoveFailed")
    /\ Len(CallsOf("move_worktree")) = 2
    /\ WorktreeAtTemp
    /\ wsDir

C18_WitnessMkdir ==
    /\ caller = "ensure"
    /\ Len(args) = 1
    /\ epc = "done"
    /\ WasLegacy
    /\ eret = Failed("Io")
    /\ WorktreeAtTemp
    /\ ~wsDir

\* C12: ensure_workspace_exists is idempotent.  When a call has succeeded,
\* a legacy migration included, the call that immediately follows with the
\* same arguments succeeds, performs no move, no removal and no other
\* destructive operation, and leaves directory and worktrees as they were.
C12_EnsureIdempotent ==
    (caller = "ensure" /\ pre.prevCaller = "ensure" /\ pre.prev.kind = "Ok") =>
        /\ DiskNow = DiskOf(pre)
        /\ CallsOf("move_worktree") = <<>>
        /\ CallsOf("remove_dir_all") = <<>>
        /\ CallsOf("create_dir_all") = <<>>
        /\ \A i \in 1..Len(calls) : calls[i].ok
        /\ epc = "done" =>
            /\ eret.kind = "Ok"
            /\ Len(CallsOf("ensure_worktree_exists")) = Len(args)

C12_Witness ==
    /\ caller = "ensure"
    /\ epc = "done"
    /\ pre.prevCaller = "ensure"
    /\ pre.prev.kind = "Ok"
    /\ pre.prevMigrate.kind = "Ok" /\ pre.prevMigrate.migrated
    /\ eret.kind = "Ok"

C12_WitnessRepaired ==
    /\ caller = "ensure"
    /\ epc = "done"
    /\ pre.prevCaller = "ensure"
    /\ pre.prev.kind = "Ok"
    /\ Len(args) = 3
    /\ pre.rootGit = "file"
    /\ eret.kind = "Ok"

\* ensure_workspace_exists has returned.
EnsureReturned == caller = "ensure" /\ epc = "done"

\* The workspace directory was there, or create_dir_all was called for it.
BaseDirEnsured == pre.wsDir \/ CallsOf("create_dir_all") # <<>>

\* ensure_worktree_exists was called once per repository in order, up to
\* the first failure, whose error is what was returned.
EnsuredInOrder ==
    LET ens == CallsOf("ensure_worktree_exists") IN
        /\ Len(ens) <= Len(args)
        /\ \A i \in 1..Len(ens) :
            /\ ens[i].repo = RepoPath(args[i])
            /\ ens[i].path = WorktreePath(args[i])
            /\ (i < Len(ens) => ens[i].ok)
        /\ IF ens # <<>> /\ ~ens[Len(ens)].ok
           THEN eret = Failed(ens[Len(ens)].err)
           ELSE Len(ens) = Len(args) /\ eret = Succeeded

\* No move is made for a list of two or more repositories, whatever the
\* layout of the workspace root.
NoMoveForSeveral ==
    (caller = "ensure" /\ Len(args) >= 2) => CallsOf("move_worktree") = <<>>

\* C17 as stated: a migration that performs work makes the call return
\* success without a call of ensure_worktree_exists; two or more
\* repositories never cause a move; in every other case the base directory
\* is ensured and ensure_worktree_exists is called once per repository in
\* order, up to the first failure.
C17_MigrateOrEnsure ==
    /\ NoMoveForSeveral
    /\ EnsureReturned =>
        IF Len(args) = 1 /\ mret.kind = "Ok" /\ mret.migrated
        THEN eret = Succeeded /\ CallsOf("ensure_worktree_exists") = <<>>
        ELSE BaseDirEnsured /\ EnsuredInOrder

\* C17 amended: an empty list returns NoRepositories and nothing is called;
\* a single repository is migrated first, and a migration that migrated
\* returns success, one that failed returns its error, both without a call
\* of ensure_worktree_exists; two or more repositories never cause a move;
\* in every other case the workspace directory is created if it is missing,
\* a failure of which is returned, and then ensure_worktree_exists is called
\* once per repository in order, up to the first failure.
C17_MigrateOrEnsureOrFail ==
    /\ NoMoveForSeveral
    /\ EnsureReturned =>
        IF args = <<>>
        THEN eret = Failed("NoRepositories") /\ calls = <<>>
        ELSE IF Len(args) = 1 /\ mret.kind = "Ok" /\ mret.migrated
        THEN eret = Succeeded /\ CallsOf("ensure_worktree_exists") = <<>>
        ELSE IF Len(args) = 1 /\ mret.kind = "Err"
        THEN eret = mret /\ CallsOf("ensure_worktree_exists") = <<>>
        ELSE /\ (CallsOf("create_dir_all") # <<>>) <=> ~pre.wsDir
             /\ IF ~wsDir
                THEN /\ eret = Failed("Io")
                     /\ CallsOf("ensure_worktree_exists") = <<>>
                ELSE EnsuredInOrder

C17_Witness ==
    /\ EnsureReturned
    /\ Len(args) = 1
    /\ mret.kind = "Ok" /\ mret.migrated
    /\ eret = Succeeded

C17_WitnessSeveral ==
    /\ EnsureReturned
    /\ Len(args) = 3
    /\ pre.rootGit = "file"
    /\ pre.entry[RepoName(args[1])] = "absent"
    /\ Len(CallsOf("ensure_worktree_exists")) = 2
    /\ eret = Failed("EnsureFailed")

\* ------------------------------------------ cleanup_orphan_workspaces: claims
\* The paths of the entries of the base directories.
SubPaths == {SubPath(b, d) : b \in BaseDirs, d \in SubNames}

\* The entry at a path, now and when the sweep started.
SubAt(p) == sub[p[1]][p[2]]
SubBefore(p) == pre.sub[p[1]][p[2]]

\* The calls of the sweep with operation op on path p.
SweepCallsOn(op, p) == SelectSeq(calls, LAMBDA c : c.op = op /\ c.path = p)

\* The registry answered "not recorded" for path p.
AnsweredOrphan(p) ==
    \E i \in 1..Len(calls) :
        /\ calls[i].op = "container_ref_exists"
        /\ calls[i].path = p
        /\ calls[i].answer = "Ok(false)"

\* The base directory b is one the sweep goes over.
Swept(b) == b = "default" \/ distinct

\* C15 as stated: the sweep removes exactly the immediate subdirectories
\* whose path is not recorded in the registry, leaves every recorded
\* subdirectory and its content untouched, and with the toggle set removes
\* nothing and calls neither the registry nor the primitive service.
C15_RemovesExactlyOrphans ==
    /\ (spc = "done" /\ ~toggle) =>
        \A p \in SubPaths :
            (Swept(p[1]) /\ SubBefore(p).kind = "dir") =>
                /\ (SubAt(p).kind = "absent") <=> (p \notin registry)
                /\ (p \in registry => SubAt(p) = SubBefore(p))
    /\ toggle => (calls = <<>> /\ sub = pre.sub)

\* C15 amended: the sweep removes only immediate subdirectories whose path
\* is not recorded in the registry; it attempts to remove every subdirectory
\* for which the registry answered "not recorded", which is gone afterwards
\* unless that removal failed; every recorded subdirectory and its content,
\* and everything that is not a directory, are untouched; and with the
\* toggle set it removes nothing and calls neither the registry nor the
\* primitive service.
C15_RemovesOnlyOrphans ==
    /\ \A p \in SubPaths :
        SubAt(p) # SubBefore(p) =>
            /\ SubBefore(p).kind = "dir"
            /\ p \notin registry
            /\ AnsweredOrphan(p)
            /\ Swept(p[1])
    /\ (spc = "done" /\ ~toggle) =>
        \A p \in SubPaths :
            AnsweredOrphan(p) =>
                /\ Len(SweepCallsOn("remove_dir_all", p)) = 1
                /\ (SubAt(p).kind = "absent") <=>
                        SweepCallsOn("remove_dir_all", p)[1].ok
    /\ toggle => (calls = <<>> /\ sub = pre.sub)

C15_Witness ==
    /\ spc = "done"
    /\ ~toggle
    /\ SubPath("default", 1) \in registry
    /\ SubAt(SubPath("default", 1)).child = "dir"
    /\ SubBefore(SubPath("default", 2)).kind = "dir"
    /\ SubAt(SubPath("default", 2)).kind = "absent"
    /\ \E i \in 1..Len(calls) :
        /\ calls[i].op = "container_ref_exists"
        /\ calls[i].path = SubPath("default", 1)
        /\ calls[i].answer = "Ok(true)"

C15_WitnessToggle ==
    /\ spc = "done"
    /\ toggle
    /\ baseDir["default"] = "present"
    /\ SubPath("default", 1) \notin registry
    /\ SubAt(SubPath("default", 1)).kind = "dir"

\* The list of base directory b was read.
BaseRead(b) ==
    \E i \in 1..Len(calls) :
        calls[i].op = "read_dir" /\ calls[i].path = <<b>> /\ calls[i].ok

\* C16: the sweep never stops at a bad directory.  A failure while an orphan
\* is reclaimed (the cleanup of a child, the removal of the orphan, the
\* listing of its children) and a base directory that is missing or cannot
\* be read keep no other subdirectory and not the other base directory from
\* being processed in the same sweep.
C16_SweepGoesOn ==
    (spc = "done" /\ ~toggle) =>
        \* every base directory that exists is opened
        /\ \A b \in BaseDirs :
            (Swept(b) /\ baseDir[b] = "present") =>
                SweepCallsOn("read_dir", <<b>>) # <<>>
        \* every readable directory of a base directory that was read is
        \* looked up, and every orphan is reclaimed
        /\ \A p \in SubPaths :
            (BaseRead(p[1]) /\ SubBefore(p).kind = "dir") =>
                /\ \/ SweepCallsOn("dir_entry", p) # <<>>
                   \/ SweepCallsOn("container_ref_exists", p) # <<>>
                /\ AnsweredOrphan(p) =>
                    /\ SweepCallsOn("read_dir", p) # <<>>
                    /\ SweepCallsOn("remove_dir_all", p) # <<>>

C16_Witness ==
    /\ spc = "done"
    /\ ~toggle
    /\ distinct
    /\ \E i \in 1..Len(calls) :
        calls[i].op = "read_dir" /\ calls[i].path = <<"default">> /\ ~calls[i].ok
    /\ SweepCallsOn("remove_dir_all", SubPath("custom", 1)) # <<>>
    /\ ~SweepCallsOn("remove_dir_all", SubPath("custom", 1))[1].ok
    /\ SweepCallsOn("cleanup_suspected_worktree",
                    Append(SubPath("custom", 1), "child")) # <<>>
    /\ SubAt(SubPath("custom", 2)).kind = "absent"
    /\ SubBefore(SubPath("custom", 2)).kind = "dir"

\* The registry lookup for path p failed.
LookupFailed(p) ==
    \E i \in 1..Len(calls) :
        /\ calls[i].op = "container_ref_exists"
        /\ calls[i].path = p
        /\ calls[i].answer = "Err"

\* The sweep has started to reclaim the directory at path p.
ReclaimStarted(p) ==
    \/ SweepCallsOn("read_dir", p) # <<>>
    \/ SweepCallsOn("cleanup_suspected_worktree", Append(p, "child")) # <<>>
    \/ SweepCallsOn("remove_dir_all", p) # <<>>

\* The sweep has gone past entry p of its base directory.
WentPast(p) ==
    \/ spc = "done"
    \/ sbase # p[1]
    \/ (sbase = p[1] /\ spc \in {"entries", "reclaim", "rmorphan"} /\ sidx > p[2])

\* C28: a subdirectory is reclaimed only when the registry lookup for its
\* path answers "not present".  When the lookup fails the subdirectory is
\* treated as live: nothing in it is removed and the sweep goes on with the
\* next entry.  Entries of the base directory that are not directories are
\* never removed.
C28_ReclaimOnlyOnNotPresent ==
    \A p \in SubPaths :
        /\ ReclaimStarted(p) => AnsweredOrphan(p)
        /\ SubAt(p) # SubBefore(p) => AnsweredOrphan(p)
        /\ LookupFailed(p) =>
            /\ ~ReclaimStarted(p)
            /\ SubAt(p) = SubBefore(p)
            /\ WentPast(p)
            /\ spc = "done" =>
                \A d \in SubNames :
                    (d > p[2] /\ SubBefore(SubPath(p[1], d)).kind = "dir") =>
                        \/ SweepCallsOn("dir_entry", SubPath(p[1], d)) # <<>>
                        \/ SweepCallsOn("container_ref_exists", SubPath(p[1], d)) # <<>>
        /\ SubBefore(p).kind # "dir" =>
            /\ SubAt(p) = SubBefore(p)
            /\ ~ReclaimStarted(p)
            /\ SweepCallsOn("container_ref_exists", p) = <<>>

C28_Witness ==
    /\ spc = "done"
    /\ LookupFailed(SubPath("default", 1))
    /\ SubPath("default", 1) \notin registry
    /\ SubAt(SubPath("default", 1)).child = "dir"
    /\ AnsweredOrphan(SubPath("default", 2))
    /\ SubAt(SubPath("default", 2)).kind = "absent"

C28_WitnessFile ==
    /\ spc = "done"
    /\ BaseRead("default")
    /\ SubAt(SubPath("default", 1)).kind = "file"
    /\ SubAt(SubPath("default", 2)).kind = "absent"

\* ------------------------ create_workspace and cleanup_workspace: what is removed
\* The names of the entries that are not the worktree path of a repository
\* of the list.
OtherNames == EntryNames \ {RepoName(r) : r \in RangeOf(args)}

\* C29: a failed create_workspace removes only what it created.  What was in
\* the workspace directory before the call (a file, the directory or the
\* worktree of another repository) is still there afterwards, and so is the
\* directory that holds it.  cleanup_workspace, by contrast, removes the
\* whole directory, entries that belong to no repository of its list
\* included.
C29_RollbackKeepsForeign ==
    /\ (db = NoRow /\ callNo > 0) =>
        \A n \in OtherNames :
            pre.entry[n] # "absent" => (entry[n] = pre.entry[n] /\ wsDir)
    /\ (db # NoRow /\ CallsOf("remove_dir_all") # <<>>
            /\ CallsOf("remove_dir_all")[1].ok) =>
        /\ ~wsDir
        /\ \A n \in EntryNames : entry[n] = "absent"

C29_Witness ==
    /\ db = NoRow
    /\ pc = "done"
    /\ result.kind = "PartialCreation"
    /\ Len(created) = 1
    /\ entry[created[1].repo_name] = "absent"
    /\ pre.entry[Foreign] = "file"
    /\ \E n \in OtherNames : n # Foreign /\ pre.entry[n] = "worktree"
    /\ wsDir

C29_WitnessCleanup ==
    /\ db # NoRow
    /\ CallsOf("remove_dir_all") # <<>>
    /\ CallsOf("remove_dir_all")[1].ok
    /\ pre.entry[Foreign] = "file"
    /\ CallsOf("batch_cleanup_worktrees") # <<>>
    /\ ~wsDir

\* ------------------------------------ close_workspace_discard: swallowed failures
\* The batch worktree cleanup of this request returned success.
BatchCleanupOk == DiscardEntered /\ CallsOf("batch_cleanup_worktrees")[1].ok

\* When this request started the workspace was already discarded: no
\* directory, no worktree, no workspace branch.
StartedDiscarded ==
    /\ rpc # "idle"
    /\ ~pre.wsDir
    /\ \A n \in EntryNames : pre.entry[n] = "absent"
    /\ \A r \in Repos : ~pre.branch[r]

\* C21: close_workspace_discard returns Ok whenever the batch worktree cleanup
\* returned Ok, whether or not the removal of the workspace directory failed
\* and however many branch deletions failed: it goes through every branch
\* deletion and the request never ends with a cleanup error (it ends with
\* success, or with the error of a database update that follows the discard).
\* A discard that starts on an already discarded workspace gets Ok from the
\* batch cleanup, hence succeeds.
C21_SecondaryFailuresSwallowed ==
    /\ BatchCleanupOk =>
        /\ rpc \in {"rmdir", "delbranch", "archive", "clearref", "status", "done"}
        /\ rpc = "done" =>
            /\ response.status \in {200, 500}
            /\ BranchDeletionAttemptedEverywhere
    /\ (StartedDiscarded /\ DiscardEntered) => BatchCleanupOk

\* A discard succeeds although the directory removal and every branch
\* deletion failed.
C21_Witness ==
    /\ rpc = "done"
    /\ response.status = 200
    /\ strategy = "discard"
    /\ Len(args) = 2
    /\ Len(CallsOf("remove_dir_all")) = 1
    /\ ~CallsOf("remove_dir_all")[1].ok
    /\ \A i \in 1..2 : ~CallsOf("delete_branch")[i].ok

\* A second discard of a workspace that the first request discarded without
\* getting to clear the container reference succeeds.
C21_WitnessAgain ==
    /\ StartedDiscarded
    /\ strategy = "discard"
    /\ rpc = "done"
    /\ response.status = 200
    /\ parked.rpc \in {"archive", "clearref"}

\* ------------------------------------ close_workspace: the workspace record
\* The request has changed the workspace row or the task status.
RecordChanged == db # pre.db \/ taskStatus # pre.taskStatus

\* The git work of the request succeeded: for a merge, close_workspace_merge
\* returned Ok and a record was written per repository; for both strategies,
\* close_workspace_discard returned Ok.
GitWorkSucceeded ==
    /\ strategy = "merge" =>
        /\ mergeRet.kind = "Ok"
        /\ Len(merges) = Len(pre.merges) + Len(args)
    /\ BatchCleanupOk
    /\ BranchDeletionAttemptedEverywhere

\* C23: close_workspace changes the workspace record only after the git
\* work succeeded: when the merge step or the discard step fails, the archived
\* flag, the container reference and the task status are as they were; when
\* the request answers with success, the workspace is archived, its
\* container reference is cleared and the task status is Done after a merge
\* and Todo after a discard.
C23_RecordOnlyAfterGitWork ==
    /\ RecordChanged => GitWorkSucceeded
    /\ (rpc # "idle" /\ (mergeRet.kind = "Err" \/ DiscardReturnedErr)) =>
        /\ rpc = "done"
        /\ response.status \in {400, 409}
        /\ ~RecordChanged
    /\ (rpc = "done" /\ response.status = 200) =>
        /\ GitWorkSucceeded
        /\ db.archived
        /\ db.container_ref = NoRef
        /\ strategy \in {"merge", "discard"}
        /\ strategy = "merge" => taskStatus = "done"
        /\ strategy = "discard" => taskStatus = "todo"

\* A discard of a workspace of three repositories succeeds.
C23_Witness ==
    /\ rpc = "done"
    /\ response.status = 200
    /\ strategy = "discard"
    /\ Len(args) = 3
    /\ taskStatus = "todo"
    /\ pre.taskStatus # "todo"

\* A merge succeeds.
C23_WitnessMerge ==
    /\ rpc = "done"
    /\ response.status = 200
    /\ strategy = "merge"
    /\ Len(args) = 2
    /\ taskStatus = "done"

\* The discard step of a merge-close fails after the merges.
C23_WitnessFailed ==
    /\ DiscardReturnedErr
    /\ strategy = "merge"
    /\ Len(merges) = 2
    /\ db = OpenRow

\* ------------------------------------ close_workspace: rejected requests
NotFound == [status |-> 404, repo_name |-> None, message |-> "not found"]

\* The request was rejected by one of the checks that precede the git work.
RejectedUpFront ==
    /\ rpc = "done"
    /\ response \in {NotFound,
                      BadRequest("Workspace already closed (no active worktree)"),
                      BadRequest("Cannot close workspace with running processes"),
                      BadRequest("Invalid strategy")}

\* The request has done nothing: no merge, no cleanup, no branch deletion, no
\* merge record; and while no other request has started, nothing at all has
\* changed since it arrived.
NothingDone ==
    /\ calls = <<>>
    /\ results = <<>>
    /\ recIdx = 1
    /\ parked.rpc = "idle" => Snapshot = pre

C24_WitnessNotFound == response = NotFound /\ rpc = "done"

C24_WitnessRunning ==
    /\ response = BadRequest("Cannot close workspace with running processes")
    /\ strategy = "merge"

C24_WitnessStrategy == response = BadRequest("Invalid strategy") /\ rpc = "done"

\* ------------------------------------ close_workspace: overlapping requests
\* A request has passed the checks and has run a merge or the cleanup.
DidGitWork(req) ==
    \E i \in 1..Len(req.calls) :
        req.calls[i].op \in {"merge_into_branch", "batch_cleanup_worktrees",
                              "delete_branch"}

\* Both requests are in flight.
Overlapping == rpc \notin {"idle", "done"} /\ parked.rpc \notin {"idle", "done"}

\* C25: two close_workspace requests for the same workspace that are in
\* flight together never both pass the checks and perform merges, cleanup or
\* branch deletion.
C25_AtMostOneDoesGitWork ==
    ~(Overlapping /\ DidGitWork(ActiveRequest) /\ DidGitWork(parked))

\* Neither do two requests both close the workspace.
C25_ClosedOnce == closes <= 1

\* ------------------------------------ close_workspace: merge, then cleanup
\* This request has started the cleanup of the workspace.
CleanupStarted ==
    \E i \in 1..Len(calls) :
        calls[i].op \in {"batch_cleanup_worktrees", "remove_dir_all", "delete_branch"}

\* Every repository of the workspace was merged by this request, in order,
\* and each merge has its record.
AllMergedAndRecorded ==
    /\ mergeRet.kind = "Ok"
    /\ Len(mergeRet.results) = Len(args)
    /\ Len(CallsOf("merge_into_branch")) = Len(args)
    /\ \A i \in 1..Len(args) : CallsOf("merge_into_branch")[i].ok
    /\ recIdx = Len(args) + 1
    /\ \A i \in 1..Len(args) :
        \E j \in 1..Len(merges) : merges[j] = DirectMergeOf(mergeRet.results[i])

MergeCommitExists == \E r \in Repos : commits[r] # <<>>

\* A request has cleared the container reference and has not answered with
\* success: it is about to update the task status, or that update failed.
ClearedUnfinished(req) ==
    \/ req.rpc = "status"
    \/ req.rpc = "done" /\ req.response.status = 500 /\ req.didx > Len(args)

\* This request arrived when a merge commit existed and no close had
\* finished or cleared the container reference.
StartedAfterMerge ==
    /\ rpc # "idle"
    /\ \E r \in Repos : pre.commits[r] # <<>>
    /\ pre.closes = 0
    /\ pre.db.container_ref # NoRef

C22_WitnessCleanup ==
    /\ strategy = "merge"
    /\ CleanupStarted
    /\ Len(args) = 2

\* ------------------------------------ cleanup_orphan_workspaces: live directories
\* The sweep has finished, and since it started the create_workspace call
\* that had made the workspace directory took no step (its process crashed
\* or its caller was cancelled) and the directory was never registered.
SweptAfterInterruptedCreate ==
    /\ spc = "done"
    /\ "epc" \in DOMAIN pre
    /\ pre.wsDir
    /\ pre.db = NoRow
    /\ db = NoRow
    /\ pre.pc \in {"create", "rollback", "done"}
    /\ pc = pre.pc
    /\ idx = pre.idx
    /\ ridx = pre.ridx
    /\ created = pre.created

\* Every registry lookup of the sweep was answered.
WorkingRegistry ==
    \A i \in 1..Len(calls) : calls[i].op = "container_ref_exists" => calls[i].ok

\* A filesystem step of the sweep failed.
SweepStepFailed ==
    \E i \in 1..Len(calls) :
        /\ calls[i].op \in {"read_dir", "dir_entry", "remove_dir_all"}
        /\ ~calls[i].ok

\* C26 as stated: the sweep that follows an interrupted creation, with the
\* toggle unset and a working registry, removes the workspace directory.
C26_OrphanRemoved ==
    (SweptAfterInterruptedCreate /\ WorkingRegistry) => ~wsDir

\* C26 amended: that sweep finds the directory unrecorded and reclaims it;
\* the directory is gone afterwards unless the base directory or the entry
\* could not be read or remove_dir_all failed, which is logged.
C26_OrphanReclaimed ==
    (SweptAfterInterruptedCreate /\ WorkingRegistry) =>
        \/ /\ ~wsDir
           /\ entry = NoEntries
           /\ \E i \in 1..Len(calls) : calls[i].op = "remove_dir_all" /\ calls[i].ok
        \/ SweepStepFailed

\* The directory that held two worktrees is gone after the sweep.
C26_Witness ==
    /\ SweptAfterInterruptedCreate
    /\ WorkingRegistry
    /\ Len(pre.created) = 2
    /\ pre.pc = "create"
    /\ ~wsDir

\* The sweep has just removed entry i of the base directory.
JustRemoved(i) ==
    /\ spc = "entries"
    /\ sidx = i + 1
    /\ calls # <<>>
    /\ calls[Len(calls)].op = "remove_dir_all"
    /\ calls[Len(calls)].ok

\* The sweep has removed the directory of a workspace whose create_workspace
\* is in progress, or has returned and is not registered yet, with the
\* worktrees made so far.
RemovedDuringCreate ==
    /\ JustRemoved(1)
    /\ db = NoRow
    /\ created # <<>>
    /\ pc = "create" \/ (pc = "done" /\ result.kind = "Ok")

\* The sweep has removed the `<name>-migrating` directory that held the
\* worktree of a registered workspace.
RemovedDuringMigration ==
    /\ JustRemoved(2)
    /\ Registered(1)
    /\ epc \in {"m_mkdir", "m_move2", "m_ret", "done"}

\* C27: a sweep that interleaves with other operations removes neither the
\* directory of a workspace that is being created or is not registered yet,
\* nor the `<name>-migrating` directory with a registered workspace's
\* worktree.
C27_SweepSparesLive == ~RemovedDuringCreate /\ ~RemovedDuringMigration

C27_SparesCreate == ~RemovedDuringCreate

C27_SparesMigration == ~RemovedDuringMigration

====
